---- MODULE Spec2Model ----
(***************************************************************************)
(* A model of DocxBuilder (struct-to-docx): the builder's configuration   *)
(* state, the field resolution of text runs, the inline markup parser,    *)
(* and the two renderers (docx primitives and HTML).                      *)
(*                                                                         *)
(* JavaScript strings are sequences of one-character strings, so that     *)
(* split, includes, slice and the tag regular expressions are computed    *)
(* character by character.  JavaScript values are tagged records.         *)
(* Optional properties of option bags are optional record fields: a       *)
(* missing field reads as undefined.                                       *)
(***************************************************************************)
EXTENDS Integers, Sequences, FiniteSets, TLC

VARIABLES count,     \* DocxBuilder.count, the static instance counter
          builders,  \* the DocxBuilder instances, in order of construction
          document,  \* the global DOM document, [head |-> its elements], or
                     \* Undefined where there is none (Node.js)
          arg,       \* the call made last: its name, its receiver, its arguments
          ret,       \* what that call returned, or the error it threw
          exchange   \* the HTTP exchange of fetchUrlFile: the request sent,
                     \* its response and its timer

vars == <<count, builders, document, arg, ret, exchange>>

----------------------------------------------------------------------------
(* JavaScript values *)

Undefined == [t |-> "undefined"]
Null == [t |-> "null"]
Bool(b) == [t |-> "boolean", b |-> b]
Num(n) == [t |-> "number", n |-> n]
Str(s) == [t |-> "string", s |-> s]
Arr(a) == [t |-> "array", a |-> a]
\* An object is the list of its own properties, [k |-> key, v |-> value],
\* with distinct keys.
Obj(o) == [t |-> "object", o |-> o]

Has(r, f) == f \in DOMAIN r

Range(s) == {s[i] : i \in DOMAIN s}

\* The outcome of a call: the value it returned, or the error it threw.
Return(v) == [t |-> "return", v |-> v]

Throw(e) == [t |-> "throw", error |-> e]

IsThrow(r) == Has(r, "t") /\ r.t = "throw"

----------------------------------------------------------------------------
(* String helpers *)

RECURSIVE Digits(_)
\* The decimal digits of a natural number.
Digits(n) ==
  LET d == <<"0", "1", "2", "3", "4", "5", "6", "7", "8", "9">>
  IN  IF n < 10 THEN <<d[n + 1]>> ELSE Digits(n \div 10) \o <<d[(n % 10) + 1]>>

\* Number.prototype.toString of an integer.
NumberToString(n) == IF n < 0 THEN <<"-">> \o Digits(0 - n) ELSE Digits(n)

\* String.prototype.includes for a one-character needle.
Includes(s, ch) == \E i \in DOMAIN s : s[i] = ch

RECURSIVE Split(_, _)
\* String.prototype.split for a one-character separator.
Split(s, sep) ==
  IF ~Includes(s, sep) THEN <<s>>
  ELSE LET i == CHOOSE j \in DOMAIN s : s[j] = sep /\ \A k \in 1..(j - 1) : s[k] # sep
       IN  <<SubSeq(s, 1, i - 1)>> \o Split(SubSeq(s, i + 1, Len(s)), sep)

\* A canonical array index: "0", or digits without a leading zero.
IsIndex(s) ==
  /\ Len(s) > 0
  /\ \A i \in DOMAIN s : s[i] \in {"0", "1", "2", "3", "4", "5", "6", "7", "8", "9"}
  /\ (Len(s) > 1 => s[1] # "0")

RECURSIVE ToNat(_)
ToNat(s) ==
  LET val(c) == CHOOSE n \in 0..9 : Digits(n) = <<c>>
  IN  IF s = <<>> THEN 0 ELSE ToNat(SubSeq(s, 1, Len(s) - 1)) * 10 + val(s[Len(s)])

LengthKey == <<"l", "e", "n", "g", "t", "h">>

----------------------------------------------------------------------------
(* The JavaScript operations the resolver uses *)

RECURSIVE JsString(_)
\* String(value).
JsString(v) ==
  CASE v.t = "string" -> v.s
    [] v.t = "number" -> NumberToString(v.n)
    [] v.t = "boolean" -> IF v.b THEN <<"t", "r", "u", "e">> ELSE <<"f", "a", "l", "s", "e">>
    [] v.t = "null" -> <<"n", "u", "l", "l">>
    [] v.t = "undefined" -> <<"u", "n", "d", "e", "f", "i", "n", "e", "d">>
    [] v.t = "object" ->
         <<"[", "o", "b", "j", "e", "c", "t", " ", "O", "b", "j", "e", "c", "t", "]">>
    [] v.t = "array" ->
         \* Array.prototype.join(","): null and undefined elements are empty
         LET el(x) == IF x.t \in {"null", "undefined"} THEN <<>> ELSE JsString(x)
         IN  IF v.a = <<>> THEN <<>>
             ELSE IF Len(v.a) = 1 THEN el(v.a[1])
             ELSE el(v.a[1]) \o <<",">> \o JsString(Arr(Tail(v.a)))

\* ToBoolean(value).
Truthy(v) ==
  CASE v.t \in {"undefined", "null"} -> FALSE
    [] v.t = "boolean" -> v.b
    [] v.t = "number" -> v.n # 0
    [] v.t = "string" -> v.s # <<>>
    [] OTHER -> TRUE

\* value[key] for a value other than null and undefined: an own property of an
\* object, an element or the length of an array, a character or the length of
\* a string; undefined otherwise.  (Keys naming properties inherited from the
\* prototypes, such as "constructor", are not among the keys drawn.)
GetProp(v, key) ==
  CASE v.t = "object" ->
         IF \E i \in DOMAIN v.o : v.o[i].k = key
         THEN v.o[CHOOSE i \in DOMAIN v.o : v.o[i].k = key].v
         ELSE Undefined
    [] v.t = "array" ->
         IF key = LengthKey THEN Num(Len(v.a))
         ELSE IF IsIndex(key) /\ ToNat(key) < Len(v.a) THEN v.a[ToNat(key) + 1]
         ELSE Undefined
    [] v.t = "string" ->
         IF key = LengthKey THEN Num(Len(v.s))
         ELSE IF IsIndex(key) /\ ToNat(key) < Len(v.s) THEN Str(<<v.s[ToNat(key) + 1]>>)
         ELSE Undefined
    [] OTHER -> Undefined

RECURSIVE JsonClone(_)
\* JSON.parse(JSON.stringify(value)): a property whose value is undefined is
\* dropped, an undefined array element becomes null.
JsonClone(v) ==
  CASE v.t = "object" ->
         LET keep == SelectSeq(v.o, LAMBDA p : p.v.t # "undefined")
         IN  Obj([i \in DOMAIN keep |-> [k |-> keep[i].k, v |-> JsonClone(keep[i].v)]])
    [] v.t = "array" ->
         Arr([i \in DOMAIN v.a |->
                IF v.a[i].t = "undefined" THEN Null ELSE JsonClone(v.a[i])])
    [] OTHER -> v

----------------------------------------------------------------------------
(* Field resolution of a text run *)

\* The literal default of a run: options.text ?? "".
DefaultText(options) == IF Has(options, "text") THEN options.text ELSE <<>>

\* The field with htmlConfig.field taken before field.
BinaryFieldWrong(options) ==
  IF Has(options, "htmlConfig") /\ Has(options.htmlConfig, "field")
  THEN Str(options.htmlConfig.field)
  ELSE IF Has(options, "field") THEN Str(options.field)
  ELSE Undefined

\* Binary renderer: options.field ?? options.htmlConfig?.field, a string or
\* undefined.
BinaryField(options) ==
  IF Has(options, "field") THEN Str(options.field)
  ELSE IF Has(options, "htmlConfig") /\ Has(options.htmlConfig, "field")
  THEN Str(options.htmlConfig.field)
  ELSE Undefined

RECURSIVE WalkBinary(_, _)
\* Binary renderer, the loop over fieldParts: a falsy tmpValue[fieldParts[i]]
\* breaks, otherwise tmpValue descends.  tmpValue is truthy throughout.
WalkBinary(tmpValue, fieldParts) ==
  IF fieldParts = <<>> THEN [isBreak |-> FALSE, tmpValue |-> tmpValue]
  ELSE LET next == GetProp(tmpValue, Head(fieldParts))
       IN  IF ~Truthy(next) THEN [isBreak |-> TRUE, tmpValue |-> tmpValue]
           ELSE WalkBinary(next, Tail(fieldParts))

RECURSIVE WalkHtml(_, _)
\* HTML renderer, the loop over fieldParts: only an undefined
\* tmpValue[fieldParts[i]] breaks, so tmpValue may descend to null, and
\* reading a property of null throws a TypeError.
WalkHtml(tmpValue, fieldParts) ==
  IF fieldParts = <<>> THEN [isBreak |-> FALSE, tmpValue |-> tmpValue]
  ELSE IF tmpValue.t = "null" THEN Throw("TypeError")
  ELSE LET next == GetProp(tmpValue, Head(fieldParts))
       IN  IF next.t = "undefined" THEN [isBreak |-> TRUE, tmpValue |-> tmpValue]
           ELSE WalkHtml(next, Tail(fieldParts))

\* data[field] !== undefined, for data an object.
LiteralHit(data, field) == GetProp(data, field).t # "undefined"

\* The value of a text run when the nested walk is tried before the literal
\* key.
ResolveLiteralLast(options, data) ==
  LET field == BinaryField(options)
  IN  IF ~(Truthy(data) /\ Truthy(field)) THEN DefaultText(options)
      ELSE IF Includes(field.s, ".")
                /\ ~WalkBinary(JsonClone(data), Split(field.s, ".")).isBreak
      THEN JsString(WalkBinary(JsonClone(data), Split(field.s, ".")).tmpValue)
      ELSE IF LiteralHit(data, field.s) THEN JsString(GetProp(data, field.s))
      ELSE DefaultText(options)

\* Binary renderer: the value of a text run (a string).
ResolveBinary(options, data) ==
  LET field == BinaryField(options)
  IN  IF ~(Truthy(data) /\ Truthy(field)) THEN DefaultText(options)
      ELSE IF LiteralHit(data, field.s) THEN JsString(GetProp(data, field.s))
      ELSE IF Includes(field.s, ".")
      THEN LET walk == WalkBinary(JsonClone(data), Split(field.s, "."))
           IN  IF walk.isBreak THEN DefaultText(options) ELSE JsString(walk.tmpValue)
      ELSE DefaultText(options)

\* HTML renderer: the value of a text run that has an htmlConfig (a string),
\* or the TypeError the walk throws.
ResolveHtml(options, data) ==
  LET field == options.htmlConfig.field
  IN  IF ~Truthy(data) THEN Return(DefaultText(options))
      ELSE IF LiteralHit(data, field) THEN Return(JsString(GetProp(data, field)))
      ELSE IF Includes(field, ".")
      THEN LET walk == WalkHtml(JsonClone(data), Split(field, "."))
           IN  IF IsThrow(walk) THEN walk
               ELSE IF walk.isBreak THEN Return(DefaultText(options))
               ELSE Return(JsString(walk.tmpValue))
      ELSE Return(DefaultText(options))

----------------------------------------------------------------------------
(* The inline markup parser *)

\* parseText: the supported inline tags, in scan order.
inlineTags ==
  << <<"s", "u", "p">>, <<"s", "u", "b">>, <<"s", "t", "r", "o", "n", "g">>, <<"b">>,
     <<"e", "m">>, <<"i">>, <<"d", "e", "l">>, <<"s">>, <<"u">> >>

OpenTag(tag) == <<"<">> \o tag \o <<">">>

CloseTag(tag) == <<"<", "/">> \o tag \o <<">">>

\* Whether pattern occurs in line at the 1-based position i.
OccursAt(line, pattern, i) ==
  /\ i >= 1
  /\ i + Len(pattern) - 1 <= Len(line)
  /\ SubSeq(line, i, i + Len(pattern) - 1) = pattern

\* The characters "." does not match.
LineTerminators == {"\n", "\r"}

\* Whether <tag>(.*?)</tag> matches at position i with its closing tag at j.
MatchesAt(line, tag, i, j) ==
  /\ OccursAt(line, OpenTag(tag), i)
  /\ j >= i + Len(OpenTag(tag))
  /\ OccursAt(line, CloseTag(tag), j)
  /\ \A k \in (i + Len(OpenTag(tag)))..(j - 1) : line[k] \notin LineTerminators

RECURSIVE MatchAll(_, _, _)
\* line.matchAll(new RegExp(`<${tag}>(.*?)</${tag}>`, "g")) from the 1-based
\* position pos on: the leftmost start that has a match, its nearest closing
\* tag, then on from the end of that match.  start and end are 0-based
\* offsets, as match.index is.
MatchAll(line, tag, pos) ==
  LET starts == {i \in pos..Len(line) : \E j \in i..Len(line) : MatchesAt(line, tag, i, j)}
  IN  IF starts = {} THEN <<>>
      ELSE LET i == CHOOSE x \in starts : \A y \in starts : x <= y
               j == CHOOSE x \in i..Len(line) :
                      /\ MatchesAt(line, tag, i, x)
                      /\ \A y \in i..(x - 1) : ~MatchesAt(line, tag, i, y)
               end == j - 1 + Len(CloseTag(tag))
           IN  << [type |-> tag,
                   value |-> SubSeq(line, i + Len(OpenTag(tag)), j - 1),
                   start |-> i - 1,
                   end |-> end] >> \o MatchAll(line, tag, end + 1)

RECURSIVE AllMatches(_, _)
\* The matches of every tag from the k-th of inlineTags on, in push order.
AllMatches(line, k) ==
  IF k > Len(inlineTags) THEN <<>>
  ELSE MatchAll(line, inlineTags[k], 1) \o AllMatches(line, k + 1)

\* The matches left in push order: no sort.
SortNone(matches) == matches

\* matches.sort((a, b) => a.start - b.start): a stable sort by start.
SortByStart(matches) ==
  LET rank(i) == Cardinality({j \in DOMAIN matches :
                     \/ matches[j].start < matches[i].start
                     \/ (matches[j].start = matches[i].start /\ j < i)})
  IN  [r \in DOMAIN matches |-> matches[CHOOSE i \in DOMAIN matches : rank(i) = r - 1]]

\* line.slice(from, to) for 0 <= from, 0 <= to (0-based, to exclusive).
Slice(line, from, to) ==
  LET hi == IF to > Len(line) THEN Len(line) ELSE to
  IN  IF from >= hi THEN <<>> ELSE SubSeq(line, from + 1, hi)

TextTag == <<"t", "e", "x", "t">>

RECURSIVE InsertPartsUnguarded(_, _, _)
\* The loop with the text before a match pushed whether or not the match
\* starts after lastIndex.
InsertPartsUnguarded(line, matches, lastIndex) ==
  IF matches = <<>>
  THEN IF lastIndex < Len(line)
       THEN << [type |-> TextTag, value |-> Slice(line, lastIndex, Len(line))] >>
       ELSE <<>>
  ELSE LET m == Head(matches)
       IN  << [type |-> TextTag, value |-> Slice(line, lastIndex, m.start)] >>
           \o << [type |-> m.type, value |-> m.value] >>
           \o InsertPartsUnguarded(line, Tail(matches), m.end)

RECURSIVE InsertParts(_, _, _)
\* parseText: the loop over the sorted matches, then the trailing text.
InsertParts(line, matches, lastIndex) ==
  IF matches = <<>>
  THEN IF lastIndex < Len(line)
       THEN << [type |-> TextTag, value |-> Slice(line, lastIndex, Len(line))] >>
       ELSE <<>>
  ELSE LET m == Head(matches)
       IN  (IF m.start > lastIndex
            THEN << [type |-> TextTag, value |-> Slice(line, lastIndex, m.start)] >>
            ELSE <<>>)
           \o << [type |-> m.type, value |-> m.value] >>
           \o InsertParts(line, Tail(matches), m.end)

\* parseText for one line.
ParseLine(line) == InsertParts(line, SortByStart(AllMatches(line, 1)), 0)

\* parseText(input): one list of parts per line of the input.
parseText(input) ==
  LET lines == Split(input, "\n")
  IN  [l \in DOMAIN lines |-> ParseLine(lines[l])]

----------------------------------------------------------------------------
(* Unit helpers *)

\* Math.round(num / den) for den > 0: the nearest integer, a half rounding up.
MathRound(num, den) == (2 * num + den) \div (2 * den)

\* A font size in points, held in tenths of a point (10.5 is Points(105)).
Points(tenths) == [t |-> "number", tenths |-> tenths]

\* One of the 16 named sizes (IChineseFontSize), by its pinyin name:
\* chuhao is the source's "initial size" token, wuhao its "size five" token.
SizeToken(name) == [t |-> "string", name |-> name]

\* textSize: the named sizes' points, in tenths of a point.
fontSizeMap ==
  [chuhao |-> 420, xiaochu |-> 360, yihao |-> 260, xiaoyi |-> 240,
   erhao |-> 220, xiaoer |-> 180, sanhao |-> 160, xiaosan |-> 150,
   sihao |-> 140, xiaosi |-> 120, wuhao |-> 105, xiaowu |-> 90,
   liuhao |-> 75, xiaoliu |-> 65, qihao |-> 55, bahao |-> 50]

\* textSize(fontSize): half-points.
textSize(fontSize) ==
  IF fontSize.t = "number" THEN MathRound(fontSize.tenths * 2, 10)
  ELSE MathRound(fontSizeMap[fontSize.name] * 2, 10)

\* twipsToPx(twips) = Math.round(twips * (96 / 1440)).
twipsToPx(twips) == MathRound(twips * 96, 1440)

----------------------------------------------------------------------------
(* The binary renderer *)

RECURSIVE Flatten(_)
\* The concatenation of the lists of a list.
Flatten(ss) == IF ss = <<>> THEN <<>> ELSE Head(ss) \o Flatten(Tail(ss))

\* options.f ?? dflt
Coalesce(options, f, dflt) == IF Has(options, f) THEN options[f] ELSE dflt

\* A TextRun whose flags are merged with || : a flag set to false gives way
\* to the one the item's tag stands for.
NewTextRunTruthy(options, builder, line, lineIndex, itemIndex) ==
  LET item == line[itemIndex + 1]
      type == item.type
      set(f) == Has(options, f) /\ options[f]
  IN  [new |-> "TextRun",
       options |->
         [text |-> item.value,
          font |-> Coalesce(options, "font", builder.defaultFont),
          size |-> Coalesce(options, "size", textSize(builder.defaultFontSize)),
          bold |-> set("bold") \/ type = <<"s", "t", "r", "o", "n", "g">> \/ type = <<"b">>,
          italics |-> set("italics") \/ type = <<"e", "m">> \/ type = <<"i">>,
          underline |-> Coalesce(options, "underline",
                                 IF type = <<"u">> THEN [type |-> "single"] ELSE Undefined),
          strike |-> set("strike") \/ type = <<"d", "e", "l">> \/ type = <<"s">>,
          subScript |-> set("subScript") \/ type = <<"s", "u", "b">>,
          superScript |-> set("superScript") \/ type = <<"s", "u", "p">>,
          break |-> Coalesce(options, "break",
                             IF lineIndex # 0 /\ itemIndex = Len(line) - 1 THEN 1 ELSE 0)]
         @@ options]

\* new TextRun({...options, text: item.value, font: ..., ...}) for the item
\* itemIndex of line lineIndex (both 0-based).
NewTextRun(options, builder, line, lineIndex, itemIndex) ==
  LET item == line[itemIndex + 1]
      type == item.type
  IN  [new |-> "TextRun",
       options |->
         [text |-> item.value,
          font |-> Coalesce(options, "font", builder.defaultFont),
          size |-> Coalesce(options, "size", textSize(builder.defaultFontSize)),
          bold |-> Coalesce(options, "bold",
                            type = <<"s", "t", "r", "o", "n", "g">> \/ type = <<"b">>),
          italics |-> Coalesce(options, "italics", type = <<"e", "m">> \/ type = <<"i">>),
          underline |-> Coalesce(options, "underline",
                                 IF type = <<"u">> THEN [type |-> "single"] ELSE Undefined),
          strike |-> Coalesce(options, "strike", type = <<"d", "e", "l">> \/ type = <<"s">>),
          subScript |-> Coalesce(options, "subScript", type = <<"s", "u", "b">>),
          superScript |-> Coalesce(options, "superScript", type = <<"s", "u", "p">>),
          break |-> Coalesce(options, "break",
                             IF lineIndex # 0 /\ itemIndex = Len(line) - 1 THEN 1 ELSE 0)]
         @@ options]

\* The text primitives of a run whose value is resolved: none for "", else one
\* per (line, item) of parseText(value).
TextRuns(options, value, builder) ==
  IF value = <<>> THEN <<>>
  ELSE LET lines == parseText(value)
           ofLine(lineIndex) ==
             [k \in 1..Len(lines[lineIndex + 1]) |->
                NewTextRun(options, builder, lines[lineIndex + 1], lineIndex, k - 1)]
       IN  Flatten([l \in DOMAIN lines |-> ofLine(l - 1)])

\* The paragraph children one inline item contributes.
ParagraphChild(optionItem, data, builder) ==
  IF optionItem.type = "text"
  THEN TextRuns(optionItem.options, ResolveBinary(optionItem.options, data), builder)
  ELSE IF optionItem.type = "image"
  THEN << [new |-> "ImageRun", options |-> optionItem.options] >>
  ELSE <<>>

\* The paragraph children pushed last item first.
ParagraphChildrenReversed(options, data, builder) ==
  Flatten([i \in DOMAIN options.children |->
             ParagraphChild(options.children[Len(options.children) + 1 - i], data, builder)])

\* paragraphChildren: what options.children.forEach pushes, in order.
ParagraphChildren(options, data, builder) ==
  Flatten([i \in DOMAIN options.children |->
             ParagraphChild(options.children[i], data, builder)])

\* The paragraph pushed whatever its children.
EmitParagraphAlways(options, paragraphChildren) ==
  << [new |-> "Paragraph", options |-> [children |-> paragraphChildren] @@ options] >>

\* A paragraph is pushed when it has children; an empty one is ignored.
EmitParagraph(options, paragraphChildren) ==
  IF Len(paragraphChildren) > 0
  THEN << [new |-> "Paragraph", options |-> [children |-> paragraphChildren] @@ options] >>
  ELSE <<>>

RECURSIVE renderChildren(_, _, _)
\* renderChildren(children, data) of the builder: the FileChild list.
renderChildren(children, data, builder) ==
  LET cell(cellOptions) ==
        [new |-> "TableCell",
         options |-> [children |-> renderChildren(cellOptions.children, data, builder)]
                     @@ cellOptions]
      row(rowOptions) ==
        [new |-> "TableRow",
         options |-> [children |-> [c \in DOMAIN rowOptions.children |->
                                      cell(rowOptions.children[c])]]
                     @@ rowOptions]
      fileChild(contentItem) ==
        IF contentItem.type = "paragraph"
        THEN EmitParagraph(contentItem.options,
                           ParagraphChildren(contentItem.options, data, builder))
        ELSE IF contentItem.type = "emptyParagraph"
        THEN << [new |-> "Paragraph",
                 options |-> [children |->
                                << [new |-> "TextRun", options |-> [text |-> <<>>]] >>]] >>
        ELSE IF contentItem.type = "table"
        THEN << [new |-> "Table",
                 options |-> [rows |-> [r \in DOMAIN contentItem.options.rows |->
                                          row(contentItem.options.rows[r])]]
                             @@ contentItem.options] >>
        ELSE <<>>
  IN  Flatten([i \in DOMAIN children |-> fileChild(children[i])])

----------------------------------------------------------------------------
(* The HTML renderer.  An HTML string is held as the list of the elements *)
(* it spells, each a record of its tag, its attributes and its children;  *)
(* a text run whose field resolution throws is held as the Throw record.  *)

\* value.replace(/\t/g, "&nbsp;&nbsp;&nbsp;&nbsp;").replace(/\n/g, "<br />")
EscapeText(value) ==
  LET nbsp == <<"&", "n", "b", "s", "p", ";">>
      char(c) == IF c = "\t" THEN nbsp \o nbsp \o nbsp \o nbsp
                 ELSE IF c = "\n" THEN <<"<", "b", "r", " ", "/", ">">>
                 ELSE <<c>>
  IN  Flatten([i \in DOMAIN value |-> char(value[i])])

\* spanStyle with the default size left in points.
SpanStylePoints(options, builder) ==
  [fontSize |-> Coalesce(options, "size", textSize(builder.defaultFontSize) \div 2),
   fontFamily |-> Coalesce(options, "font", builder.defaultFont),
   color |-> IF Has(options, "color") /\ options.color # ""
             THEN "#" \o options.color ELSE "#000000"]

\* spanStyle: font-size, font-family and color of a text run.
SpanStyle(options, builder) ==
  [fontSize |-> Coalesce(options, "size", textSize(builder.defaultFontSize)),
   fontFamily |-> Coalesce(options, "font", builder.defaultFont),
   color |-> IF Has(options, "color") /\ options.color # ""
             THEN "#" \o options.color ELSE "#000000"]

\* breakTag: "<br />".repeat(options.break) when options.break is truthy.
BreakTag(options) ==
  IF Has(options, "break") /\ options.break > 0
  THEN [i \in 1..options.break |-> [tag |-> "br"]]
  ELSE <<>>

\* propsStr: the attributes key="value" of the props that are not objects.
PropsStr(htmlConfig) ==
  IF ~Has(htmlConfig, "props") THEN {}
  ELSE {<<k, JsString(htmlConfig.props[k])>> :
          k \in {x \in DOMAIN htmlConfig.props :
                   htmlConfig.props[x].t \notin {"object", "array", "null"}}}

\* The option elements of a select: props.options, each selected when its
\* value is the resolved value.
OptionHtml(htmlConfig, value) ==
  IF Has(htmlConfig, "props") /\ Has(htmlConfig.props, "options")
  THEN LET items == htmlConfig.props.options.a
       IN  [i \in DOMAIN items |->
              [tag |-> "option", class |-> "docx-builder-option",
               value |-> items[i].value, selected |-> (value = items[i].value),
               label |-> items[i].label]]
  ELSE <<>>

\* The elements of one text run.
TextHtml(options, data, builder) ==
  IF Has(options, "htmlConfig")
  THEN LET htmlConfig == options.htmlConfig
           name == Coalesce(htmlConfig, "name", "")
           resolved == ResolveHtml(options, data)
           value == resolved.v
       IN  IF IsThrow(resolved) THEN <<resolved>>
           ELSE IF name = "input"
           THEN BreakTag(options)
                \o << [tag |-> "input", class |-> "docx-builder-input",
                       props |-> PropsStr(htmlConfig), name |-> htmlConfig.field,
                       value |-> value] >>
           ELSE IF name = "textarea"
           THEN BreakTag(options)
                \o << [tag |-> "textarea", class |-> "docx-builder-textarea",
                       props |-> PropsStr(htmlConfig), name |-> htmlConfig.field,
                       content |-> value] >>
           ELSE IF name = "select"
           THEN BreakTag(options)
                \o << [tag |-> "select", class |-> "docx-builder-select",
                       props |-> PropsStr(htmlConfig), name |-> htmlConfig.field,
                       children |-> OptionHtml(htmlConfig, value)] >>
           ELSE BreakTag(options)
                \o << [tag |-> "span", style |-> SpanStyle(options, builder),
                       content |-> EscapeText(value)] >>
  ELSE BreakTag(options)
       \o << [tag |-> "span", style |-> SpanStyle(options, builder),
              content |-> IF Has(options, "text") /\ options.text # <<>>
                          THEN EscapeText(options.text) ELSE <<>>] >>

\* The element of one image: none for a floating image.
ImageHtml(options) ==
  IF ~Has(options, "floating")
  THEN << [tag |-> "img", src |-> options.data,
           alt |-> IF Has(options, "altText") /\ Has(options.altText, "name")
                   THEN options.altText.name ELSE "",
           width |-> options.transformation.width,
           height |-> options.transformation.height] >>
  ELSE <<>>

\* pStyle: the style of a paragraph.
ParagraphStyle(options) ==
  LET spacing == Coalesce(options, "spacing", [x \in {} |-> 0])
      truthy(f) == Has(spacing, f) /\ spacing[f] # 0
  IN  (IF truthy("before") THEN [paddingTop |-> twipsToPx(spacing.before)]
       ELSE [x \in {} |-> 0])
      @@ (IF truthy("after") THEN [paddingBottom |-> twipsToPx(spacing.after)]
          ELSE [x \in {} |-> 0])
      @@ (IF truthy("line") THEN [lineHeight |-> <<spacing.line, 240>>]
          ELSE [x \in {} |-> 0])
      @@ [textAlign |-> Coalesce(options, "alignment", "left")]

\* The min-width of a table cell.
CellMinWidth(tdItem) ==
  IF Has(tdItem, "width") /\ Has(tdItem.width, "size")
     /\ Truthy(tdItem.width.size)
  THEN IF tdItem.width.size.t = "number"
       THEN [n |-> tdItem.width.size.n, unit |-> "cm"]
       ELSE [css |-> tdItem.width.size.s]
  ELSE [css |-> "auto"]

RECURSIVE renderChildrenHtml(_, _, _)
\* renderChildrenHtml(children, data) of the builder.
renderChildrenHtml(children, data, builder) ==
  LET inline(inlineItem) ==
        IF inlineItem.type = "text" THEN TextHtml(inlineItem.options, data, builder)
        ELSE IF inlineItem.type = "image" THEN ImageHtml(inlineItem.options)
        ELSE <<>>
      td(tdItem) ==
        [tag |-> "td", class |-> "docx-builder-td",
         colspan |-> Coalesce(tdItem, "columnSpan", 1),
         rowspan |-> Coalesce(tdItem, "rowSpan", 1),
         minWidth |-> CellMinWidth(tdItem),
         children |-> renderChildrenHtml(tdItem.children, data, builder)]
      tr(rowItem) ==
        [tag |-> "tr",
         pageBreakInsideAvoid |-> (Has(rowItem, "cantSplit") /\ rowItem.cantSplit),
         children |-> [c \in DOMAIN rowItem.children |-> td(rowItem.children[c])]]
      element(contentItem) ==
        IF contentItem.type = "paragraph"
        THEN << [tag |-> "p", class |-> "docx-builder-p",
                 style |-> ParagraphStyle(contentItem.options),
                 children |->
                   Flatten([i \in DOMAIN contentItem.options.children |->
                              inline(contentItem.options.children[i])])] >>
        ELSE IF contentItem.type = "emptyParagraph"
        THEN << [tag |-> "br"] >>
        ELSE IF contentItem.type = "table"
        THEN << [tag |-> "table", class |-> "docx-builder-table",
                 children |-> [r \in DOMAIN contentItem.options.rows |->
                                 tr(contentItem.options.rows[r])]] >>
        ELSE <<>>
  IN  Flatten([i \in DOMAIN children |-> element(children[i])])

RECURSIVE AnyThrow(_)
\* Whether building the HTML of these elements threw.
AnyThrow(elements) ==
  \E i \in DOMAIN elements :
    \/ IsThrow(elements[i])
    \/ (Has(elements[i], "children") /\ AnyThrow(elements[i].children))

\* What a call that builds these elements gives its caller.
Outcome(elements) == IF AnyThrow(elements) THEN Throw("TypeError") ELSE Return(elements)

----------------------------------------------------------------------------
(* The inputs drawn: data bags, field paths, text runs *)

\* The deepest nesting of the data bags drawn, and the longest dotted path.
MaxDepth == 3

\* The segment of depth i of the nested path a.b.c...
Segment(i) == << <<"a", "b", "c", "d", "e", "f">>[i] >>

RECURSIVE DottedPath(_)
\* The dotted path of n segments: a, a.b, a.b.c, ...
DottedPath(n) == IF n = 1 THEN Segment(1) ELSE DottedPath(n - 1) \o <<".">> \o Segment(n)

RECURSIVE Nested(_, _, _)
\* The value at depth i of a bag whose segments i..n nest down to leaf.
Nested(i, n, leaf) ==
  IF i > n THEN leaf ELSE Obj(<< [k |-> Segment(i), v |-> Nested(i + 1, n, leaf)] >>)

\* The values at the end of a nested path.
Leaves ==
  {Str(<<"X">>), Str(<<>>), Num(0), Num(5), Bool(FALSE), Bool(TRUE), Null, Undefined,
   Obj(<<>>), Arr(<< Str(<<"Y">>), Null >>)}

\* The values of a flat key that spells a whole dotted path.
LiteralValues == {Str(<<"S", "-", "1">>), Num(7), Null, Undefined}

\* A bag {a: {b: ... leaf}} of depth n, alone or beside the flat key "a.b.c".
NestedBags ==
  {Nested(1, n, leaf) : n \in 1..MaxDepth, leaf \in Leaves}
  \cup {Obj(<< [k |-> DottedPath(MaxDepth), v |-> lit] >> \o Nested(1, n, leaf).o) :
          n \in 1..MaxDepth, leaf \in Leaves, lit \in LiteralValues}

\* The data bags drawn; Undefined is a render without data.
DataBags ==
  NestedBags
  \cup {Undefined,
        Obj(<< [k |-> DottedPath(MaxDepth), v |-> Str(<<"S", "-", "1">>)] >>),
        Obj(<< [k |-> <<>>, v |-> Str(<<"E">>)] >>),
        Obj(<< [k |-> <<"x">>, v |-> Str(<<"l", "\n", "<", "b", ">", "m", "<", "/", "b", ">">>)],
               [k |-> DottedPath(MaxDepth), v |-> Str(<<"S", "-", "1">>)] >>)}

\* The field paths drawn: the dotted paths, an array index, a flat key, and
\* the empty string.
FieldPaths ==
  {DottedPath(n) : n \in 1..MaxDepth}
  \cup {DottedPath(MaxDepth) \o <<".", "0">>, <<"a", ".", "z">>, <<"x">>, <<>>}

\* The default text of the runs drawn.
DefaultTexts == {<<"d", "e", "f", "a", "u", "l", "t">>}

\* The options of the text runs drawn for field resolution: text, field and
\* htmlConfig.field each present or not.
ResolutionRuns ==
  LET texts == {[text |-> x] : x \in DefaultTexts} \cup {[x \in {} |-> 0]}
      fields == {[field |-> f] : f \in FieldPaths} \cup {[x \in {} |-> 0]}
      configs == {[htmlConfig |-> [field |-> f]] : f \in FieldPaths} \cup {[x \in {} |-> 0]}
  IN  {t @@ f @@ c : t \in texts, f \in fields, c \in configs}

\* The builders drawn: the defaults a text run falls back to.
DefaultBuilder == [defaultFont |-> "Arial", defaultFontSize |-> Points(100)]

----------------------------------------------------------------------------
(* The builder: render and renderHtml *)

\* renderHeaders and renderFooters: undefined without the slot list, else
\* the slots default, first and even, each rendered or undefined.
renderHeaders(headers, data, builder, class) ==
  IF headers.t = "undefined" THEN Undefined
  ELSE [name \in {"default", "first", "even"} |->
          IF Has(headers, name)
          THEN [new |-> class,
                options |-> [children |-> renderChildren(headers[name].children, data, builder)]]
          ELSE Undefined]
       @@ [t |-> "object"]

\* section.headers or section.footers, tagged as a value.
Slots(section, f) == IF Has(section, f) THEN [t |-> "object"] @@ section[f] ELSE Undefined

\* render(data): the Document.
RenderDocument(builder, data) ==
  [new |-> "Document",
   options |->
     [sections |->
        [i \in DOMAIN builder.sections |->
           LET section == builder.sections[i]
           IN  [f \in {"headers", "footers"} |->
                  renderHeaders(Slots(section, f), data, builder,
                                IF f = "headers" THEN "Header" ELSE "Footer")]
               @@ [properties |-> Coalesce(section, "properties", Undefined),
                   children |-> renderChildren(section.children, data, builder)]]]
     @@ builder.properties
     @@ [creator |-> "DocxBuilder"]]

\* renderHeadersHtml and renderFootersHtml: the slots default, first and even
\* that are present, in that order.
renderHeadersHtml(headers, data, builder) ==
  IF headers.t = "undefined" THEN <<>>
  ELSE LET names == <<"default", "first", "even">>
       IN  Flatten([i \in DOMAIN names |->
                      IF Has(headers, names[i])
                      THEN renderChildrenHtml(headers[names[i]].children, data, builder)
                      ELSE <<>>])

\* renderHtml(data), up to the injection of the style: the section divs, each
\* of its header, body and footer div.
SectionsHtml(builder, data) ==
  [i \in DOMAIN builder.sections |->
     LET section == builder.sections[i]
     IN  [tag |-> "div", class |-> "docx-builder-section",
          pageBreakAfter |-> IF i - 1 = Len(builder.sections) - 1 THEN "auto" ELSE "always",
          children |->
            [c \in 1..3 |->
               [tag |-> "div",
                class |-> <<"docx-builder-header", "docx-builder-body",
                            "docx-builder-footer">>[c],
                children |->
                  IF c = 2 THEN renderChildrenHtml(section.children, data, builder)
                  ELSE renderHeadersHtml(Slots(section, <<"headers", "", "footers">>[c]),
                                         data, builder)]]]]

\* document.getElementById(id): whether the document holds the element.
GetElementById(doc, id) == \E i \in DOMAIN doc.head : doc.head[i].id = id

\* injectStyle(id): a style element with this id is appended to the head
\* unless the document already holds an element with the id.
injectStyle(doc, id) ==
  IF GetElementById(doc, id) THEN doc
  ELSE [doc EXCEPT !.head = Append(doc.head, [tag |-> "style", id |-> id])]

----------------------------------------------------------------------------
(* SpecRun: one text run, alone in a paragraph, rendered by either renderer *)

\* The text runs drawn for the renderers' fonts and sizes: a default text
\* with or without markup, own font and size or none, as a span or as an
\* input, under each default font and default font size.
StyleInputs ==
  LET texts == {<<"d">>, <<"x", "\n", "<", "b", ">", "y", "<", "/", "b", ">">>}
      fonts == {[font |-> "SimSun"], [x \in {} |-> 0]}
      sizes == {[size |-> 24], [size |-> 0], [x \in {} |-> 0]}
      configs == {[htmlConfig |-> [field |-> <<"x">>, name |-> n]] : n \in {"span", "input"}}
                 \cup {[htmlConfig |-> [field |-> <<"x">>]], [x \in {} |-> 0]}
      defaults == {[defaultFont |-> f, defaultFontSize |-> z] :
                     f \in {"Arial", "SimSun"},
                     z \in {Points(100), Points(105), SizeToken("wuhao"),
                            SizeToken("xiaoliu")}}
  IN  {[options |-> [text |-> t] @@ f @@ z @@ c, data |-> d, builder |-> b] :
         t \in texts, f \in fonts, z \in sizes, c \in configs, b \in defaults,
         d \in {Undefined, Obj(<< [k |-> <<"x">>, v |-> Str(<<"v">>)] >>)}}

\* The text runs drawn for the style flags and the line breaks: a text of
\* plain and tagged segments on one or more lines, with one flag, a color or
\* a break set in the run's options, or none.
FlagInputs ==
  LET tagged(tag, x) == OpenTag(tag) \o x \o CloseTag(tag)
      texts == {<<"d">>,
                <<"x", "\n">> \o tagged(<<"b">>, <<"y">>),
                <<"a", "\n", "x">> \o tagged(<<"s", "t", "r", "o", "n", "g">>, <<"y">>),
                <<"a", "\n", "\n", "b">>,
                tagged(<<"u">>, <<"p">>) \o tagged(<<"d", "e", "l">>, <<"q">>)
                  \o tagged(<<"e", "m">>, <<"r">>) \o tagged(<<"s", "u", "p">>, <<"2">>),
                tagged(<<"i">>, <<"p">>) \o tagged(<<"s">>, <<"q">>)
                  \o tagged(<<"s", "u", "b">>, <<"2">>)}
      flags == {[x \in {} |-> 0], [color |-> "FF0000"], [underline |-> [type |-> "double"]],
                [break |-> 0], [break |-> 2]}
               \cup {[bold |-> v] : v \in BOOLEAN} \cup {[italics |-> v] : v \in BOOLEAN}
               \cup {[strike |-> v] : v \in BOOLEAN} \cup {[subScript |-> v] : v \in BOOLEAN}
               \cup {[superScript |-> v] : v \in BOOLEAN}
  IN  {[options |-> [text |-> t] @@ f, data |-> Undefined, builder |-> DefaultBuilder] :
         t \in texts, f \in flags}

\* The text runs drawn for the form controls: htmlConfig.name each of the
\* four names or none, a flat or a dotted field, props with an option list
\* and a placeholder or none, over bags that hold the field, lack it, or
\* end the path early.  (No prop drawn is called name, value or class.)
ControlInputs ==
  LET items == Arr(<< [label |-> <<"V">>, value |-> <<"v">>],
                      [label |-> <<"W">>, value |-> <<"w">>] >>)
      names == {[name |-> n] : n \in {"input", "textarea", "select", "span"}}
               \cup {[x \in {} |-> 0]}
      props == {[props |-> [options |-> items, placeholder |-> Str(<<"p">>)]],
                [props |-> [options |-> items]], [x \in {} |-> 0]}
      bags == {Undefined,
               Obj(<< [k |-> <<"x">>, v |-> Str(<<"v">>)] >>),
               Obj(<< [k |-> <<"x">>, v |-> Str(<<"w">>)],
                      [k |-> <<"a">>, v |-> Obj(<< [k |-> <<"b">>, v |-> Str(<<"v">>)] >>)] >>),
               Obj(<< [k |-> <<"a">>, v |-> Null] >>),
               Obj(<< [k |-> <<"a">>, v |-> Obj(<< [k |-> <<"b">>, v |-> Num(0)] >>)] >>)}
  IN  {[options |-> [text |-> <<"d">>, htmlConfig |-> [field |-> f] @@ n @@ q],
        data |-> d, builder |-> DefaultBuilder] :
         f \in {<<"x">>, <<"a", ".", "b">>}, n \in names, q \in props, d \in bags}

RunInputs ==
  {[options |-> o, data |-> d, builder |-> DefaultBuilder] :
     o \in ResolutionRuns, d \in DataBags}
  \cup StyleInputs
  \cup FlagInputs
  \cup ControlInputs

\* The paragraph that holds the one text run.
ParagraphOf(options) ==
  [type |-> "paragraph",
   options |-> [children |-> << [type |-> "text", options |-> options] >>]]

\* Before any call: nothing returned, nothing thrown.
NoCall == [op |-> "none", t |-> "none"]

\* No request has been sent.
NoExchange == [phase |-> "none"]

InitRun ==
  /\ count = 0
  /\ builders = <<>>
  /\ document = [head |-> <<>>]
  /\ arg \in {[op |-> "text"] @@ i : i \in RunInputs}
  /\ ret = NoCall
  /\ exchange = NoExchange

\* renderChildren on the paragraph; value is the run's resolved value.
RunBinary ==
  /\ ret = NoCall
  /\ ret' = [op |-> "renderChildren",
             value |-> ResolveBinary(arg.options, arg.data)]
            @@ Return(renderChildren(<<ParagraphOf(arg.options)>>, arg.data, arg.builder))
  /\ UNCHANGED <<count, builders, document, arg, exchange>>

\* renderChildrenHtml on the paragraph.
RunHtml ==
  /\ ret = NoCall
  /\ ret' = [op |-> "renderChildrenHtml"]
            @@ Outcome(renderChildrenHtml(<<ParagraphOf(arg.options)>>, arg.data, arg.builder))
  /\ UNCHANGED <<count, builders, document, arg, exchange>>

NextRun == RunBinary \/ RunHtml

SpecRun == InitRun /\ [][NextRun]_vars

----------------------------------------------------------------------------
(* Claims on field resolution, checked under SpecRun *)

\* The run's element in the HTML a returned renderChildrenHtml call built:
\* the last child of the one paragraph.
RunElement == ret.v[1].children[Len(ret.v[1].children)]

\* The text the HTML renderer shows for the run, before escaping is undone:
\* a span's content, an input's value, a textarea's content, the value of a
\* select's selected option (nothing when no option is selected).
ShownText ==
  IF RunElement.tag = "input" THEN EscapeText(RunElement.value)
  ELSE IF RunElement.tag = "select"
  THEN IF \E i \in DOMAIN RunElement.children : RunElement.children[i].selected
       THEN EscapeText(RunElement.children[
              CHOOSE i \in DOMAIN RunElement.children : RunElement.children[i].selected].value)
       ELSE <<>>
  ELSE IF RunElement.tag = "textarea" THEN EscapeText(RunElement.content)
  ELSE RunElement.content

BinaryReturned == ret.op = "renderChildren" /\ ret.t = "return"

HtmlReturned == ret.op = "renderChildrenHtml" /\ ret.t = "return"

\* The field path each renderer looks up: field, else htmlConfig.field, in
\* the binary renderer; htmlConfig.field in the HTML renderer.
HasBinaryPath == Has(arg.options, "field") \/ Has(arg.options, "htmlConfig")

BinaryPath ==
  IF Has(arg.options, "field") THEN arg.options.field ELSE arg.options.htmlConfig.field

HasHtmlPath == Has(arg.options, "htmlConfig")

HtmlPath == arg.options.htmlConfig.field

\* The path is a key of the bag itself, with a value other than undefined.
IsLiteralKey(path) ==
  /\ arg.data.t = "object"
  /\ \E i \in DOMAIN arg.data.o : arg.data.o[i].k = path /\ arg.data.o[i].v.t # "undefined"

LiteralValue(path) ==
  arg.data.o[CHOOSE i \in DOMAIN arg.data.o : arg.data.o[i].k = path].v

\* String(value) of the values drawn as literal values.
LiteralString(v) ==
  CASE v.t = "string" -> v.s
    [] v.t = "null" -> <<"n", "u", "l", "l">>
    [] v.t = "number" /\ v.n = 7 -> <<"7">>
    [] v.t = "number" /\ v.n = 0 -> <<"0">>
    [] v.t = "number" /\ v.n = 5 -> <<"5">>
    [] v.t = "boolean" -> IF v.b THEN <<"t", "r", "u", "e">> ELSE <<"f", "a", "l", "s", "e">>
    [] v.t = "object" ->
         <<"[", "o", "b", "j", "e", "c", "t", " ", "O", "b", "j", "e", "c", "t", "]">>
    [] v.t = "array" -> <<"Y", ",">>

\* The run's element can show the value: it is no select, or a select with
\* an option of that value.
ListsValue(value) ==
  RunElement.tag = "select"
    => \E i \in DOMAIN RunElement.children : RunElement.children[i].value = value

----------------------------------------------------------------------------
RECURSIVE SegmentMissing(_, _)
\* Walking the segments from value v on, some segment is not there: v is
\* null or undefined, or has no such property.
SegmentMissing(v, segments) ==
  IF segments = <<>> THEN FALSE
  ELSE IF v.t \in {"null", "undefined"} THEN TRUE
  ELSE IF GetProp(v, Head(segments)).t = "undefined" THEN TRUE
  ELSE SegmentMissing(GetProp(v, Head(segments)), Tail(segments))

\* The segments of the dotted paths drawn, written out.
SegmentsOf(path) ==
  CASE path = <<"a", ".", "b">> -> << <<"a">>, <<"b">> >>
    [] path = <<"a", ".", "z">> -> << <<"a">>, <<"z">> >>
    [] path = <<"a", ".", "b", ".", "c">> -> << <<"a">>, <<"b">>, <<"c">> >>
    [] path = <<"a", ".", "b", ".", "c", ".", "0">> -> << <<"a">>, <<"b">>, <<"c">>, <<"0">> >>
    [] path = <<"a", ".", "b", ".", "c", ".", "d">> -> << <<"a">>, <<"b">>, <<"c">>, <<"d">> >>
    [] path = <<"a", ".", "b", ".", "c", ".", "d", ".", "0">>
         -> << <<"a">>, <<"b">>, <<"c">>, <<"d">>, <<"0">> >>
    [] OTHER -> <<path>>

\* The path is walked: it has a dot and is no literal key of the bag.
IsWalked(path) == arg.data.t = "object" /\ Len(SegmentsOf(path)) > 1 /\ ~IsLiteralKey(path)

\* The run's literal default text.
RunDefault == IF Has(arg.options, "text") THEN arg.options.text ELSE <<>>

\* The bag {a: {b: {c: "X"}}} of the claim's example, and {a: {b: {}}}.
BagX == Nested(1, 3, Str(<<"X">>))

BagEmptyLeaf == Nested(1, 2, Obj(<<>>))

PathABC == <<"a", ".", "b", ".", "c">>

\* C2, as claimed: a field path that is no literal key of the bag and has a
\* dot is walked through the nested bag; a.b.c resolves to "X" in
\* {a: {b: {c: "X"}}}, and whenever the leaf or an earlier segment is
\* missing the result is the run's default text -- in the binary renderer
\* and in the HTML renderer.
C2_DottedWalk ==
  /\ (ret.op = "renderChildren" /\ HasBinaryPath /\ IsWalked(BinaryPath))
       => /\ ret.t = "return"
          /\ (BinaryPath = PathABC /\ arg.data = BagX) => ret.value = <<"X">>
          /\ (BinaryPath = PathABC /\ arg.data = BagEmptyLeaf) => ret.value = RunDefault
          /\ SegmentMissing(arg.data, SegmentsOf(BinaryPath)) => ret.value = RunDefault
  /\ (ret.op = "renderChildrenHtml" /\ HasHtmlPath /\ IsWalked(HtmlPath))
       => /\ ret.t = "return"
          /\ (HtmlPath = PathABC /\ arg.data = BagX) => ShownText = <<"X">>
          /\ (HtmlPath = PathABC /\ arg.data = BagEmptyLeaf)
               => ShownText = EscapeText(RunDefault)
          /\ SegmentMissing(arg.data, SegmentsOf(HtmlPath))
               => ShownText = EscapeText(RunDefault)

RECURSIVE LeafOf(_, _)
\* The value the segments lead to from value v on, none of them missing.
LeafOf(v, segments) ==
  IF segments = <<>> THEN v ELSE LeafOf(GetProp(v, Head(segments)), Tail(segments))

RECURSIVE IntermediateFalsy(_, _)
\* Some segment before the last leads to a falsy value.
IntermediateFalsy(v, segments) ==
  IF Len(segments) < 2 THEN FALSE
  ELSE \/ ~Truthy(GetProp(v, Head(segments)))
       \/ IntermediateFalsy(GetProp(v, Head(segments)), Tail(segments))

\* The text a walked path resolves to when the walk falls back only on a
\* missing segment or a falsy intermediate segment.
WalkedText(path) ==
  IF \/ SegmentMissing(arg.data, SegmentsOf(path))
     \/ IntermediateFalsy(arg.data, SegmentsOf(path))
  THEN RunDefault
  ELSE LiteralString(LeafOf(arg.data, SegmentsOf(path)))

\* C22, as claimed: in both renderers a walked path falls back to the run's
\* default text only when a segment is missing or a segment before the last
\* is falsy; when every segment is there the value at the end of the path is
\* returned as a string, the leaves 0, false and "" included.
C22_WalkFallback ==
  /\ (ret.op = "renderChildren" /\ HasBinaryPath /\ IsWalked(BinaryPath))
       => (ret.t = "return" /\ ret.value = WalkedText(BinaryPath))
  /\ (ret.op = "renderChildrenHtml" /\ HasHtmlPath /\ IsWalked(HtmlPath))
       => (ret.t = "return" /\ ShownText = EscapeText(WalkedText(HtmlPath)))

\* C3, as claimed: field resolution never raises, in either renderer.
C3_NeverRaises == ret.t # "throw"

\* The run without its htmlConfig, and with htmlConfig.field as its field.
WithoutConfig(options) == [f \in DOMAIN options \ {"htmlConfig"} |-> options[f]]

ConfigAsField(options) ==
  [field |-> options.htmlConfig.field] @@ WithoutConfig(options)

\* What the binary renderer resolves for path alone: the bag's literal value,
\* else the default text when the path has no dot.  (A walked path is left
\* to C2.)
FlatLookup(path) ==
  IF arg.data.t # "object" \/ path = <<>> THEN RunDefault
  ELSE IF IsLiteralKey(path) THEN LiteralString(LiteralValue(path))
  ELSE RunDefault

\* C4: in the binary renderer a run with both field and htmlConfig.field is
\* looked up by field; htmlConfig.field is looked up only when the run has
\* no field.
C4_FieldPrecedence ==
  /\ (BinaryReturned /\ Has(arg.options, "field") /\ Has(arg.options, "htmlConfig"))
       => /\ ret.value = ResolveBinary(WithoutConfig(arg.options), arg.data)
          /\ ~IsWalked(arg.options.field) => ret.value = FlatLookup(arg.options.field)
  /\ (BinaryReturned /\ ~Has(arg.options, "field") /\ Has(arg.options, "htmlConfig"))
       => /\ ret.value = ResolveBinary(ConfigAsField(arg.options), arg.data)
          /\ ~IsWalked(HtmlPath) => ret.value = FlatLookup(HtmlPath)

\* C4, witness: field is "x" and htmlConfig.field is a.b.c, both in the bag
\* with different values, and the run resolved to the value of "x".
C4_Witness ==
  /\ BinaryReturned
  /\ Has(arg.options, "field") /\ Has(arg.options, "htmlConfig")
  /\ arg.options.field = <<"x">> /\ arg.options.htmlConfig.field = PathABC
  /\ IsLiteralKey(<<"x">>) /\ IsLiteralKey(PathABC)
  /\ ret.value = LiteralString(LiteralValue(<<"x">>))
  /\ ret.value # LiteralString(LiteralValue(PathABC))

\* C5, as claimed: for every text run and every data bag the text the HTML
\* renderer shows is the text the binary renderer resolves.
C5_HtmlResolvesAsBinary ==
  ret.op = "renderChildrenHtml"
    => (ret.t = "return" /\ ShownText = EscapeText(ResolveBinary(arg.options, arg.data)))

----------------------------------------------------------------------------
(* Claims on the renderers' fonts and sizes, checked under SpecRun *)

\* The half-points of the default font sizes drawn: 10 pt, 10.5 pt, the
\* named size of 10.5 pt and the named size of 6.5 pt.
HalfPoints(fontSize) ==
  CASE fontSize = Points(100) -> 20
    [] fontSize = Points(105) -> 21
    [] fontSize = SizeToken("wuhao") -> 21
    [] fontSize = SizeToken("xiaoliu") -> 13

ExpectedFont ==
  IF Has(arg.options, "font") THEN arg.options.font ELSE arg.builder.defaultFont

ExpectedSize ==
  IF Has(arg.options, "size") THEN arg.options.size
  ELSE HalfPoints(arg.builder.defaultFontSize)

\* The text primitives the binary renderer emits for the run of arg.
BinaryRuns ==
  LET out == renderChildren(<<ParagraphOf(arg.options)>>, arg.data, arg.builder)
  IN  IF out = <<>> THEN <<>> ELSE out[1].options.children

\* C10: the font and the size in the style of the run's span are those of
\* every text primitive the binary renderer emits for the run: the run's
\* own font and size when set, else the builder's default font and
\* textSize(default font size).
C10_FontSizeParity ==
  /\ (HtmlReturned /\ RunElement.tag = "span")
       => /\ RunElement.style.fontFamily = ExpectedFont
          /\ RunElement.style.fontSize = ExpectedSize
          /\ LET runs == BinaryRuns
             IN  \A i \in DOMAIN runs :
                   /\ runs[i].options.font = RunElement.style.fontFamily
                   /\ runs[i].options.size = RunElement.style.fontSize
  /\ BinaryReturned
       => \A p \in DOMAIN ret.v : \A i \in DOMAIN ret.v[p].options.children :
            /\ ret.v[p].options.children[i].options.font = ExpectedFont
            /\ ret.v[p].options.children[i].options.size = ExpectedSize

\* C10, witness: a run with no font and no size of its own, under the
\* default font SimSun and the named default size of 10.5 pt, is a span of
\* SimSun at 21, and the binary renderer emits primitives for it.
C10_Witness ==
  /\ HtmlReturned /\ RunElement.tag = "span"
  /\ ~Has(arg.options, "font") /\ ~Has(arg.options, "size")
  /\ arg.builder = [defaultFont |-> "SimSun", defaultFontSize |-> SizeToken("wuhao")]
  /\ RunElement.style.fontFamily = "SimSun" /\ RunElement.style.fontSize = 21
  /\ Len(BinaryRuns) > 1

----------------------------------------------------------------------------
(* Claims on the style flags and the line breaks, checked under SpecRun *)

RECURSIVE Unescape(_)
\* The content of a span with each "<br />" read back as the line feed it
\* was written for.
Unescape(content) ==
  LET br == <<"<", "b", "r", " ", "/", ">">>
  IN  IF content = <<>> THEN <<>>
      ELSE IF OccursAt(content, br, 1)
      THEN <<"\n">> \o Unescape(SubSeq(content, Len(br) + 1, Len(content)))
      ELSE <<Head(content)>> \o Unescape(Tail(content))

\* The plain and tagged segments the content of the run's span spells, line
\* by line: the inline tags of the text are written into the span as they
\* are.
SpanSegments == Flatten(parseText(Unescape(RunElement.content)))

\* The tags that stand for each flag.
BoldTags == {<<"s", "t", "r", "o", "n", "g">>, <<"b">>}

ItalicTags == {<<"e", "m">>, <<"i">>}

StrikeTags == {<<"d", "e", "l">>, <<"s">>}

UnderlineTags == {<<"u">>}

\* The color a text primitive is given, as HTML spells it: black when the
\* primitive has none of its own.
PrimitiveColor(run) ==
  IF Has(run.options, "color") THEN "#" \o run.options.color ELSE "#000000"

\* C11, as claimed: for a run shown as a span of the text the binary renderer
\* resolves, the segments of the span are those of the text primitives the
\* binary renderer emits for the same run and data bag, with the same color
\* and the same bold, italic, underline and strike decisions.  The span's style declares the font size, the font
\* family and the color only, so a segment of the span is bold, italic,
\* underlined or struck exactly when its inline tag says so.
C11_StyleFlagParity ==
  (HtmlReturned /\ RunElement.tag = "span"
     /\ RunElement.content = EscapeText(ResolveBinary(arg.options, arg.data)))
    => LET runs == BinaryRuns
           segs == SpanSegments
       IN  /\ Len(runs) = Len(segs)
           /\ \A i \in DOMAIN runs \cap DOMAIN segs :
                /\ RunElement.style.color = PrimitiveColor(runs[i])
                /\ runs[i].options.bold = (segs[i].type \in BoldTags)
                /\ runs[i].options.italics = (segs[i].type \in ItalicTags)
                /\ runs[i].options.strike = (segs[i].type \in StrikeTags)
                /\ Has(runs[i].options.underline, "type") = (segs[i].type \in UnderlineTags)

\* The text primitives a returned renderChildren call emitted for the run.
EmittedRuns == IF ret.v = <<>> THEN <<>> ELSE ret.v[1].options.children

\* The (line, segment) pairs of the run's resolved text, line by line.
ResolvedSegments ==
  IF ret.value = <<>> THEN <<>> ELSE Flatten(parseText(ret.value))

\* The flag a primitive is to carry: the run's own when the run sets it,
\* else whether the segment's tag is one of tags.
ExpectedFlag(f, type, tags) ==
  IF Has(arg.options, f) THEN arg.options[f] ELSE type \in tags

\* C19: the binary renderer emits one text primitive for each (line,
\* segment) pair of the run's resolved text, in order, with the segment's
\* text; each flag of a primitive is the run's own value where the run sets
\* one, false included, and otherwise says whether the segment's tag stands
\* for it: strong or b for bold, em or i for italics, del or s for strike,
\* sub for subScript, sup for superScript, and u for a single underline.
C19_FlagsOfPrimitives ==
  BinaryReturned
    => LET runs == EmittedRuns
           segs == ResolvedSegments
       IN  /\ Len(runs) = Len(segs)
           /\ \A i \in DOMAIN runs \cap DOMAIN segs :
                LET o == runs[i].options
                    type == segs[i].type
                IN  /\ runs[i].new = "TextRun"
                    /\ o.text = segs[i].value
                    /\ o.bold = ExpectedFlag("bold", type, BoldTags)
                    /\ o.italics = ExpectedFlag("italics", type, ItalicTags)
                    /\ o.strike = ExpectedFlag("strike", type, StrikeTags)
                    /\ o.subScript = ExpectedFlag("subScript", type, {<<"s", "u", "b">>})
                    /\ o.superScript = ExpectedFlag("superScript", type, {<<"s", "u", "p">>})
                    /\ o.underline =
                         IF Has(arg.options, "underline") THEN arg.options.underline
                         ELSE IF type \in UnderlineTags THEN [type |-> "single"]
                         ELSE Undefined

\* The binary renderer has emitted the primitive of a b segment for a run
\* that sets bold to false, and the primitive is not bold.
C19_Witness ==
  /\ BinaryReturned
  /\ Has(arg.options, "bold") /\ ~arg.options.bold
  /\ \E i \in DOMAIN EmittedRuns \cap DOMAIN ResolvedSegments :
       ResolvedSegments[i].type = <<"b">> /\ ~EmittedRuns[i].options.bold

\* The lines of the run's resolved text, each the list of its segments.
ResolvedLines == IF ret.value = <<>> THEN <<>> ELSE parseText(ret.value)

\* The place among the emitted primitives of the first segment of line l
\* (counted from 1).
FirstOfLine(l) == Len(Flatten(SubSeq(ResolvedLines, 1, l - 1))) + 1

\* C20, as claimed: for a run that sets no break, the primitive of the first
\* segment of the first line has no break before it and the primitive of
\* the first segment of every later line has one; for a run that sets
\* break, 0 included, every primitive has the run's value. (Whether the
\* later segments of a line are to have a break is left open here.)
C20_LeadingBreaks ==
  BinaryReturned
    => LET runs == EmittedRuns
           lines == ResolvedLines
       IN  IF Has(arg.options, "break")
           THEN \A i \in DOMAIN runs : runs[i].options.break = arg.options.break
           ELSE \A l \in DOMAIN lines :
                  lines[l] # <<>>
                    => runs[FirstOfLine(l)].options.break = IF l = 1 THEN 0 ELSE 1

RECURSIVE TotalBreaks(_)
\* The line breaks the primitives of a list carry, all told.
TotalBreaks(runs) ==
  IF runs = <<>> THEN 0 ELSE Head(runs).options.break + TotalBreaks(Tail(runs))

\* The line feeds of a text.
LineFeeds(text) == Len(SelectSeq(text, LAMBDA c : c = "\n"))

\* C21, as claimed: the resolved text of a run is parsed into one entry per
\* line, a line more than it has line feeds, and for a run that sets no
\* break the primitives emitted carry as many line breaks, all told, as the
\* text has line feeds, blank lines and a line feed at the end included.
C21_LineStructure ==
  (BinaryReturned /\ ret.value # <<>> /\ ~Has(arg.options, "break"))
    => /\ Len(ResolvedLines) = LineFeeds(ret.value) + 1
       /\ TotalBreaks(EmittedRuns) = LineFeeds(ret.value)

----------------------------------------------------------------------------
(* Claims on the form controls, checked under SpecRun *)

\* The names of htmlConfig.name that ask for a form control.
ControlNames == {"input", "textarea", "select"}

\* The run asks for a form control.
IsControlRun ==
  /\ Has(arg.options, "htmlConfig")
  /\ Has(arg.options.htmlConfig, "name")
  /\ arg.options.htmlConfig.name \in ControlNames

\* The field's current value: the bag's literal value, else the value a
\* walked path leads to, else the run's default text.
CurrentValue(path) ==
  IF arg.data.t # "object" THEN RunDefault
  ELSE IF IsLiteralKey(path) THEN LiteralString(LiteralValue(path))
  ELSE IF IsWalked(path) THEN WalkedText(path)
  ELSE RunDefault

\* The option list of the run's htmlConfig.
ListedOptions ==
  IF Has(arg.options.htmlConfig, "props")
       /\ Has(arg.options.htmlConfig.props, "options")
  THEN arg.options.htmlConfig.props.options.a
  ELSE <<>>

\* The element is the control the run names, bound to the field and to the
\* field's current value.
BoundControl(el) ==
  /\ el.tag = arg.options.htmlConfig.name
  /\ el.name = HtmlPath
  /\ el.tag = "input" => el.value = CurrentValue(HtmlPath)
  /\ el.tag = "textarea" => el.content = CurrentValue(HtmlPath)
  /\ el.tag = "select"
       => /\ Len(el.children) = Len(ListedOptions)
          /\ \A i \in DOMAIN el.children :
               /\ el.children[i].tag = "option"
               /\ el.children[i].value = ListedOptions[i].value
               /\ el.children[i].label = ListedOptions[i].label
               /\ el.children[i].selected <=> (ListedOptions[i].value = CurrentValue(HtmlPath))

\* C23, as claimed: the HTML renderer renders a run whose htmlConfig.name is
\* input, textarea or select as that control, named by the field and holding
\* the field's current value (for a select, exactly the options of that
\* value are selected); it renders a run without htmlConfig as a span of its
\* text; the binary renderer emits text primitives only.
C23_FormControls ==
  /\ (ret.op = "renderChildrenHtml" /\ IsControlRun)
       => (ret.t = "return" /\ BoundControl(RunElement))
  /\ (ret.op = "renderChildrenHtml" /\ ~Has(arg.options, "htmlConfig"))
       => /\ ret.t = "return"
          /\ RunElement.tag = "span"
          /\ RunElement.content = EscapeText(RunDefault)
  /\ BinaryReturned
       => \A i \in DOMAIN EmittedRuns : EmittedRuns[i].new = "TextRun"

----------------------------------------------------------------------------
(* SpecParse: parseText on one input *)

\* The longest input drawn, in chunks.
MaxChunks == 4

\* The chunks an input is spelt from: a letter, two tags' opening and closing
\* tags, and the line feed.
Chunks ==
  {<<"x">>, OpenTag(inlineTags[3]), CloseTag(inlineTags[3]),
   OpenTag(inlineTags[5]), CloseTag(inlineTags[5]), <<"\n">>}

RECURSIVE ChunkInputs(_)
\* The inputs of n chunks.
ChunkInputs(n) ==
  IF n = 0 THEN {<<>>}
  ELSE {c \o rest : c \in Chunks, rest \in ChunkInputs(n - 1)}

\* "hello <strong>world</strong>!"
HelloWorld ==
  <<"h", "e", "l", "l", "o", " ">> \o OpenTag(inlineTags[3])
  \o <<"w", "o", "r", "l", "d">> \o CloseTag(inlineTags[3]) \o <<"!">>

\* "<strong><em>x</em></strong>"
NestedTags ==
  OpenTag(inlineTags[3]) \o OpenTag(inlineTags[5]) \o <<"x">>
  \o CloseTag(inlineTags[5]) \o CloseTag(inlineTags[3])

ParseInputs == UNION {ChunkInputs(n) : n \in 0..MaxChunks} \cup {HelloWorld, NestedTags}

InitParse ==
  /\ count = 0
  /\ builders = <<>>
  /\ document = [head |-> <<>>]
  /\ arg \in {[op |-> "text", input |-> i] : i \in ParseInputs}
  /\ ret = NoCall
  /\ exchange = NoExchange

\* parseText(input).
ParseText ==
  /\ ret = NoCall
  /\ ret' = [op |-> "parseText"] @@ Return(parseText(arg.input))
  /\ UNCHANGED <<count, builders, document, arg, exchange>>

NextParse == ParseText

SpecParse == InitParse /\ [][NextParse]_vars

----------------------------------------------------------------------------
(* Claims on the inline markup parser, checked under SpecParse *)

\* The lines of the input, and the segments returned for the line l.
InputLines == Split(arg.input, "\n")

\* The tagged spans of a line do not overlap or nest: any two of them lie
\* apart.
Disjoint(line) ==
  LET spans == AllMatches(line, 1)
  IN  \A m, n \in DOMAIN spans :
        m # n => (spans[m].end <= spans[n].start \/ spans[n].end <= spans[m].start)

\* The source text a segment stands for: a plain segment its text, a tagged
\* one its inner text between its tags.
SourceOf(part) ==
  IF part.type = TextTag THEN part.value
  ELSE OpenTag(part.type) \o part.value \o CloseTag(part.type)

\* The 0-based offset at which the source of the k-th segment starts when
\* the segments are laid end to end.
OffsetOf(parts, k) == Len(Flatten([i \in 1..(k - 1) |-> SourceOf(parts[i])]))

\* The segments of one line are its tagged spans, each once and in place with
\* its tag and inner text, and the non-empty gaps between them, left to
\* right: laid end to end they spell the line.
Segmented(line, parts) ==
  LET spans == AllMatches(line, 1)
      tagged == {k \in DOMAIN parts : parts[k].type # TextTag}
  IN  /\ Flatten([k \in DOMAIN parts |-> SourceOf(parts[k])]) = line
      /\ \A k \in DOMAIN parts : parts[k].type = TextTag => parts[k].value # <<>>
      /\ \A k \in DOMAIN parts :
           (k > 1 /\ parts[k].type = TextTag) => parts[k - 1].type # TextTag
      /\ Cardinality(tagged) = Len(spans)
      /\ \A m \in DOMAIN spans :
           \E k \in tagged :
             /\ OffsetOf(parts, k) = spans[m].start
             /\ parts[k].type = spans[m].type
             /\ parts[k].value = spans[m].value

\* C6: for every line of the input whose tagged spans do not overlap or
\* nest, parseText gives the tagged spans once each and the gaps between
\* them, in left-to-right order, covering the line with no overlap and no
\* gap; "hello <strong>world</strong>!" is the one line text "hello ",
\* strong "world", text "!".
C6_MarkupSegmentation ==
  ret.op = "parseText"
    => /\ Len(ret.v) = Len(InputLines)
       /\ \A l \in DOMAIN InputLines :
            Disjoint(InputLines[l]) => Segmented(InputLines[l], ret.v[l])
       /\ arg.input = HelloWorld
            => ret.v = << << [type |-> TextTag, value |-> <<"h", "e", "l", "l", "o", " ">>],
                             [type |-> inlineTags[3], value |-> <<"w", "o", "r", "l", "d">>],
                             [type |-> TextTag, value |-> <<"!">>] >> >>

\* C6, witness: the line "<em></em><strong></strong>", whose later-scanned
\* tag comes first, is parsed into em then strong.
C6_Witness ==
  /\ ret.op = "parseText"
  /\ arg.input = OpenTag(inlineTags[5]) \o CloseTag(inlineTags[5])
                   \o OpenTag(inlineTags[3]) \o CloseTag(inlineTags[3])
  /\ Disjoint(arg.input)
  /\ Len(ret.v) = 1 /\ Len(ret.v[1]) = 2
  /\ ret.v[1][1] = [type |-> inlineTags[5], value |-> <<>>]
  /\ ret.v[1][2] = [type |-> inlineTags[3], value |-> <<>>]

----------------------------------------------------------------------------
(* Claims on overlapping and nested tags, checked under SpecParse *)

\* The place of a tag in the scan order.
TagRank(tag) == CHOOSE k \in DOMAIN inlineTags : inlineTags[k] = tag

\* Match a comes before match b: by start, then by scan order.
Before(a, b) ==
  \/ a.start < b.start
  \/ (a.start = b.start /\ TagRank(a.type) < TagRank(b.type))

\* The matches of a line, first by start and then by scan order.
InOrder(line) ==
  LET spans == AllMatches(line, 1)
      place(i) == Cardinality({j \in DOMAIN spans : Before(spans[j], spans[i])})
  IN  [r \in DOMAIN spans |-> spans[CHOOSE i \in DOMAIN spans : place(i) = r - 1]]

\* The segments of a line: its tagged segments are the matches in order, one
\* each; a plain segment is the slice from the end of the match before it (0
\* when there is none) to the start of the match after it, which lies
\* further on, or, after the last match, the rest of the line.
SlicedInOrder(line, parts) ==
  LET spans == InOrder(line)
      tagged == SelectSeq(parts, LAMBDA q : q.type # TextTag)
      before(k) == Len(SelectSeq(SubSeq(parts, 1, k), LAMBDA q : q.type # TextTag))
      lastEnd(k) == IF before(k) = 0 THEN 0 ELSE spans[before(k)].end
  IN  /\ Len(tagged) = Len(spans)
      /\ \A r \in DOMAIN spans :
           tagged[r].type = spans[r].type /\ tagged[r].value = spans[r].value
      /\ \A k \in DOMAIN parts :
           parts[k].type = TextTag
             => IF before(k) < Len(spans)
                THEN /\ lastEnd(k) < spans[before(k) + 1].start
                     /\ parts[k].value
                          = SubSeq(line, lastEnd(k) + 1, spans[before(k) + 1].start)
                     /\ k < Len(parts) /\ parts[k + 1].type # TextTag
                ELSE /\ k = Len(parts)
                     /\ lastEnd(k) < Len(line)
                     /\ parts[k].value = SubSeq(line, lastEnd(k) + 1, Len(line))

\* C25: for every line of the input, lines whose tags overlap or nest
\* included, parseText returns; the tagged segments are the regex matches,
\* one segment each, ordered by start offset and then by the scan order of
\* the tags; every plain segment is the slice from the end of the match
\* before it to the later start of the match after it, or the rest of the
\* line after the last match.
C25_OverlappingTags ==
  ret.op = "parseText"
    => /\ ret.t = "return"
       /\ Len(ret.v) = Len(InputLines)
       /\ \A l \in DOMAIN InputLines : SlicedInOrder(InputLines[l], ret.v[l])

\* C25, witness: "<strong><em>x</em></strong>", whose tags nest, is parsed
\* into strong "<em>x</em>", em "x" and the text "</strong>" that follows the
\* end of the em match.
C25_Witness ==
  /\ ret.op = "parseText"
  /\ arg.input = NestedTags
  /\ ~Disjoint(arg.input)
  /\ ret.v = << << [type |-> inlineTags[3],
                    value |-> OpenTag(inlineTags[5]) \o <<"x">> \o CloseTag(inlineTags[5])],
                   [type |-> inlineTags[5], value |-> <<"x">>],
                   [type |-> TextTag, value |-> CloseTag(inlineTags[3])] >> >>

----------------------------------------------------------------------------
(* SpecTree: a builder holding a content tree, rendered twice, each time by *)
(* render or by renderHtml, the second time with another data bag           *)

\* The most content nodes at the top of a tree drawn.
MaxNodes == 2

\* A text run and an image run of the trees drawn.
TextItem(options) == [type |-> "text", options |-> options]

ImageItem(name) ==
  [type |-> "image",
   options |-> [data |-> name, transformation |-> [width |-> 10, height |-> 10]]]

ParagraphItem(alignment, children) ==
  [type |-> "paragraph", options |-> [alignment |-> alignment, children |-> children]]

EmptyParagraphItem == [type |-> "emptyParagraph"]

CellItem(size, children) == [width |-> [size |-> Str(size)], children |-> children]

\* The content nodes a tree is drawn from.  Every paragraph has an alignment
\* of its own, every run a color or an image of its own, every cell a width
\* of its own.
NodePool ==
  << ParagraphItem("center", << TextItem([text |-> <<"a">>, color |-> "c1"]),
                                ImageItem("img1") >>),
     ParagraphItem("left", << TextItem([field |-> <<"x">>, color |-> "c2"]) >>),
     ParagraphItem("right",
                   << TextItem([text |-> <<"t", "\n", "<", "b", ">", "u", "<", "/", "b", ">">>,
                                color |-> "c3"]),
                      TextItem([text |-> <<"d">>, htmlConfig |-> [field |-> <<"x">>],
                                color |-> "c4"]) >>),
     ParagraphItem("both", << TextItem([text |-> <<>>, color |-> "c5"]) >>),
     EmptyParagraphItem,
     [type |-> "table",
      options |->
        [rows |->
           << [children |->
                 << CellItem(<<"1", "0", "%">>,
                             << ParagraphItem("start",
                                  << TextItem([field |-> <<"x">>, color |-> "c6"]) >>) >>),
                    CellItem(<<"2", "0", "%">>,
                             << ParagraphItem("end",
                                  << TextItem([text |-> <<"z">>, color |-> "c7"]) >>) >>) >>],
              [children |->
                 << CellItem(<<"3", "0", "%">>,
                             << ParagraphItem("distribute",
                                  << TextItem([text |-> <<>>, field |-> <<"y">>,
                                               color |-> "c8"]) >>),
                                EmptyParagraphItem >>) >>] >>]] >>

RECURSIVE Arrangements(_)
\* The lists of n different indices of the pool.
Arrangements(n) ==
  IF n = 0 THEN {<<>>}
  ELSE UNION {{Append(a, i) : i \in DOMAIN NodePool \ Range(a)} : a \in Arrangements(n - 1)}

\* The trees drawn: up to MaxNodes different nodes of the pool, in any order.
Trees ==
  {[k \in DOMAIN a |-> NodePool[a[k]]] : a \in UNION {Arrangements(n) : n \in 0..MaxNodes}}

\* The sections of a tree: one section of all its nodes, or a section per
\* node.
SectionsOf(tree, perNode) ==
  IF perNode THEN [k \in DOMAIN tree |-> [children |-> <<tree[k]>>]]
  ELSE << [children |-> tree] >>

\* The data bags of the trees drawn: none, and flat string bags.
TreeBags ==
  {Undefined,
   Obj(<< [k |-> <<"x">>, v |-> Str(<<>>)] >>),
   Obj(<< [k |-> <<"x">>, v |-> Str(<<"v">>)] >>),
   Obj(<< [k |-> <<"x">>, v |-> Str(<<"l", "\n", "<", "b", ">", "m", "<", "/", "b", ">">>)],
          [k |-> <<"y">>, v |-> Str(<<"w">>)] >>)}

\* A builder as constructed, holding these sections.
BuilderOf(id, sections) ==
  [id |-> id, sections |-> sections, properties |-> [x \in {} |-> 0],
   defaultFont |-> "Arial", defaultFontSize |-> Points(100)]

StyleId == "docx-builder-style"

\* Whether there is a global document: a browser page has one, Node.js has
\* none, and injectStyle's read of `document` then throws a ReferenceError.
HasDocument(doc) == Has(doc, "head")

\* renderHtml(data): the wrapper div of the sections, or what building them
\* or injecting the style threw.
RenderHtmlOutcome(builder, data, doc) ==
  LET sections == SectionsHtml(builder, data)
  IN  IF AnyThrow(sections) THEN Throw("TypeError")
      ELSE IF ~HasDocument(doc) THEN Throw("ReferenceError")
      ELSE Return([tag |-> "div", id |-> builder.id, children |-> sections])

\* renderHtml(data): the document after the call; a call that throws does
\* so before injectStyle appends anything.
RenderHtmlDocument(builder, data, doc) ==
  IF IsThrow(RenderHtmlOutcome(builder, data, doc)) THEN doc ELSE injectStyle(doc, StyleId)

InitTree ==
  /\ count = 1
  /\ builders = <<>>
  /\ document = [head |-> <<>>]
  /\ arg \in {[op |-> "tree", tree |-> t,
               builder |-> BuilderOf("docx-builder0", SectionsOf(t, perNode)),
               data |-> d, other |-> o] :
                t \in Trees, perNode \in BOOLEAN, d \in TreeBags, o \in TreeBags}
  /\ ret = <<>>
  /\ exchange = NoExchange

\* The data bag of the next call: data, then other.
CallData == IF ret = <<>> THEN arg.data ELSE arg.other

\* A render that takes the sections it rendered off the builder.
TreeRenderConsuming ==
  /\ Len(ret) <= 1
  /\ ret' = Append(ret, [op |-> "render", data |-> CallData]
                        @@ Return(RenderDocument(arg.builder, CallData)))
  /\ arg' = [arg EXCEPT !.builder.sections = <<>>]
  /\ UNCHANGED <<count, builders, document, exchange>>

\* render(data) of the builder.
TreeRender ==
  /\ Len(ret) <= 1
  /\ ret' = Append(ret, [op |-> "render", data |-> CallData]
                        @@ Return(RenderDocument(arg.builder, CallData)))
  /\ UNCHANGED <<count, builders, document, arg, exchange>>

\* renderHtml(data) of the builder.
TreeRenderHtml ==
  /\ Len(ret) <= 1
  /\ ret' = Append(ret, [op |-> "renderHtml", data |-> CallData]
                        @@ RenderHtmlOutcome(arg.builder, CallData, document))
  /\ document' = RenderHtmlDocument(arg.builder, CallData, document)
  /\ UNCHANGED <<count, builders, arg, exchange>>

NextTree == TreeRender \/ TreeRenderHtml

SpecTree == InitTree /\ [][NextTree]_vars

----------------------------------------------------------------------------
(* Claims on the tree walk, checked under SpecTree.  A tree, and what a    *)
(* renderer made of it, are read as the list of their nodes in document    *)
(* order: a section, a paragraph by its alignment, a run by its color, an  *)
(* image by its data, a blank paragraph, a table, a row, a cell by its     *)
(* width, and the end of each node that holds others.                      *)

EndEvent == <<"end">>

BlankEvent == <<"blank">>

RECURSIVE Collapse(_)
\* A list without the repeats of an entry next to itself.
Collapse(events) ==
  IF Len(events) <= 1 THEN events
  ELSE IF events[1] = events[2] THEN Collapse(Tail(events))
  ELSE <<events[1]>> \o Collapse(Tail(events))

RECURSIVE TreeEvents(_, _)
\* The nodes of an input tree; hash is "#" for the colors as HTML spells them.
TreeEvents(children, hash) ==
  LET inline(item) ==
        IF item.type = "text" THEN << <<"run", hash \o item.options.color>> >>
        ELSE << <<"img", item.options.data>> >>
      cell(c) ==
        << <<"cell", c.width.size.s>> >> \o TreeEvents(c.children, hash) \o <<EndEvent>>
      row(r) ==
        << <<"row">> >> \o Flatten([i \in DOMAIN r.children |-> cell(r.children[i])])
        \o <<EndEvent>>
      node(item) ==
        IF item.type = "paragraph"
        THEN << <<"p", item.options.alignment>> >>
             \o Flatten([i \in DOMAIN item.options.children |->
                          inline(item.options.children[i])])
             \o <<EndEvent>>
        ELSE IF item.type = "emptyParagraph" THEN <<BlankEvent>>
        ELSE << <<"table">> >>
             \o Flatten([i \in DOMAIN item.options.rows |-> row(item.options.rows[i])])
             \o <<EndEvent>>
  IN  Flatten([i \in DOMAIN children |-> node(children[i])])

\* The nodes of the sections of a builder.
SectionEvents(sections, hash) ==
  Flatten([i \in DOMAIN sections |->
             << <<"section">> >> \o TreeEvents(sections[i].children, hash) \o <<EndEvent>>])

RECURSIVE BinaryEvents(_)
\* The nodes of a FileChild list; the text primitives of one run count once.
BinaryEvents(fileChildren) ==
  LET inline(run) ==
        IF run.new = "TextRun" THEN << <<"run", run.options.color>> >>
        ELSE << <<"img", run.options.data>> >>
      cell(c) ==
        << <<"cell", c.options.width.size.s>> >>
        \o BinaryEvents(c.options.children) \o <<EndEvent>>
      row(r) ==
        << <<"row">> >>
        \o Flatten([i \in DOMAIN r.options.children |-> cell(r.options.children[i])])
        \o <<EndEvent>>
      node(item) ==
        IF item.new = "Paragraph"
        THEN IF Has(item.options, "alignment")
             THEN << <<"p", item.options.alignment>> >>
                  \o Collapse(Flatten([i \in DOMAIN item.options.children |->
                                        inline(item.options.children[i])]))
                  \o <<EndEvent>>
             ELSE <<BlankEvent>>
        ELSE << <<"table">> >>
             \o Flatten([i \in DOMAIN item.options.rows |-> row(item.options.rows[i])])
             \o <<EndEvent>>
  IN  Flatten([i \in DOMAIN fileChildren |-> node(fileChildren[i])])

\* The nodes of a Document.
DocumentEvents(doc) ==
  Flatten([i \in DOMAIN doc.options.sections |->
             << <<"section">> >> \o BinaryEvents(doc.options.sections[i].children)
             \o <<EndEvent>>])

RECURSIVE HtmlEvents(_)
\* The nodes of a list of HTML elements.
HtmlEvents(elements) ==
  LET inline(e) ==
        IF e.tag = "span" THEN << <<"run", e.style.color>> >>
        ELSE IF e.tag = "img" THEN << <<"img", e.src>> >>
        ELSE <<>>
      td(e) == << <<"cell", e.minWidth.css>> >> \o HtmlEvents(e.children) \o <<EndEvent>>
      tr(e) ==
        << <<"row">> >> \o Flatten([i \in DOMAIN e.children |-> td(e.children[i])])
        \o <<EndEvent>>
      node(e) ==
        IF e.tag = "p"
        THEN << <<"p", e.style.textAlign>> >>
             \o Flatten([i \in DOMAIN e.children |-> inline(e.children[i])])
             \o <<EndEvent>>
        ELSE IF e.tag = "br" THEN <<BlankEvent>>
        ELSE << <<"table">> >>
             \o Flatten([i \in DOMAIN e.children |-> tr(e.children[i])])
             \o <<EndEvent>>
  IN  Flatten([i \in DOMAIN elements |-> node(elements[i])])

\* The nodes of the div renderHtml returns: of each section, its body.
FragmentEvents(div) ==
  Flatten([i \in DOMAIN div.children |->
             << <<"section">> >> \o HtmlEvents(div.children[i].children[2].children)
             \o <<EndEvent>>])

\* The nodes the k-th call made.
CallEvents(k) ==
  IF ret[k].op = "render" THEN DocumentEvents(ret[k].v) ELSE FragmentEvents(ret[k].v)

RECURSIVE IsSubsequence(_, _)
\* Whether a is b with some entries left out.
IsSubsequence(a, b) ==
  IF a = <<>> THEN TRUE
  ELSE IF b = <<>> THEN FALSE
  ELSE IF Head(a) = Head(b) THEN IsSubsequence(Tail(a), Tail(b))
  ELSE IsSubsequence(a, Tail(b))

\* The entries that are not a paragraph, a run or an end: what no data bag
\* can suppress.
Fixed(events) ==
  SelectSeq(events, LAMBDA e : e[1] \in {"section", "img", "table", "row", "cell", "blank"})

\* The paragraphs and runs of events that other has too.
Shared(events, other) ==
  SelectSeq(events, LAMBDA e : e[1] \in {"p", "run"} /\ e \in Range(other))

----------------------------------------------------------------------------
RECURSIVE InputParagraphs(_)
\* The paragraph nodes of an input tree, at every depth.
InputParagraphs(children) ==
  LET node(item) ==
        IF item.type = "paragraph" THEN <<item.options>>
        ELSE IF item.type = "table"
        THEN LET rows == item.options.rows
             IN  Flatten([i \in DOMAIN rows |->
                            Flatten([j \in DOMAIN rows[i].children |->
                                       InputParagraphs(rows[i].children[j].children)])])
        ELSE <<>>
  IN  Flatten([i \in DOMAIN children |-> node(children[i])])

RECURSIVE FileParagraphs(_)
\* The Paragraph primitives of a FileChild list, at every depth.
FileParagraphs(fileChildren) ==
  LET node(item) ==
        IF item.new = "Paragraph" THEN <<item.options>>
        ELSE LET rows == item.options.rows
             IN  Flatten([i \in DOMAIN rows |->
                            Flatten([j \in DOMAIN rows[i].options.children |->
                                       FileParagraphs(rows[i].options.children[j]
                                                        .options.children)])])
  IN  Flatten([i \in DOMAIN fileChildren |-> node(fileChildren[i])])

\* The paragraphs of the builder's tree and of the Document of the k-th call.
BuilderParagraphs ==
  Flatten([i \in DOMAIN arg.builder.sections |->
             InputParagraphs(arg.builder.sections[i].children)])

DocumentParagraphs(k) ==
  Flatten([i \in DOMAIN ret[k].v.options.sections |->
             FileParagraphs(ret[k].v.options.sections[i].children)])

\* The blank paragraph: one text primitive of no text, and nothing else.
BlankParagraph == [children |-> << [new |-> "TextRun", options |-> [text |-> <<>>]] >>]

\* Every run of the paragraph is a text run that resolves to "": the runs
\* emit no primitive.
EmitsNothing(options, data) ==
  \A i \in DOMAIN options.children :
    /\ options.children[i].type = "text"
    /\ ResolveBinary(options.children[i].options, data) = <<>>

\* C7: in the Document of every render, a paragraph node whose runs emit
\* nothing is not there and every other paragraph node is there once; every
\* Paragraph has at least one child; and the blank Paragraphs are as many as
\* the emptyParagraph nodes of the tree, whatever the data bag.
C7_EmptyParagraphSuppression ==
  \A k \in DOMAIN ret :
    ret[k].op = "render"
      => LET out == DocumentParagraphs(k)
             emitted(options) ==
               Len(SelectSeq(out, LAMBDA p : Has(p, "alignment")
                                         /\ p.alignment = options.alignment))
         IN  /\ \A i \in DOMAIN BuilderParagraphs :
                  emitted(BuilderParagraphs[i])
                    = IF EmitsNothing(BuilderParagraphs[i], ret[k].data) THEN 0 ELSE 1
             /\ \A i \in DOMAIN out : Len(out[i].children) >= 1
             /\ Len(SelectSeq(out, LAMBDA p : p = BlankParagraph))
                  = Len(SelectSeq(SectionEvents(arg.builder.sections, ""),
                                  LAMBDA e : e = BlankEvent))
             /\ Len(SelectSeq(out, LAMBDA p : Has(p, "alignment")))
                  + Len(SelectSeq(out, LAMBDA p : p = BlankParagraph)) = Len(out)

\* C7, witness: the tree is the paragraph whose sole run is bound to x, then
\* an emptyParagraph; rendered with x = "" the Document holds the blank
\* paragraph alone.
C7_Witness ==
  /\ Len(ret) >= 1 /\ ret[1].op = "render"
  /\ arg.tree = << NodePool[2], EmptyParagraphItem >>
  /\ ret[1].data = Obj(<< [k |-> <<"x">>, v |-> Str(<<>>)] >>)
  /\ Len(ret[1].v.options.sections) = 1
  /\ ret[1].v.options.sections[1].children = << [new |-> "Paragraph", options |-> BlankParagraph] >>

\* C9: what a render holds is the tree's nodes in the tree's order, at every
\* depth: a Document holds them less the suppressed paragraphs and the runs
\* that emit nothing, the HTML holds them all; and two renders of a tree by
\* one renderer with different data bags hold the paragraphs and runs they
\* share, and all other nodes, in the same order.
C9_TreeOrder ==
  /\ \A k \in DOMAIN ret :
       /\ ret[k].op = "render"
            => /\ IsSubsequence(CallEvents(k), SectionEvents(arg.builder.sections, ""))
               /\ Fixed(CallEvents(k)) = Fixed(SectionEvents(arg.builder.sections, ""))
       /\ (ret[k].op = "renderHtml" /\ ret[k].t = "return")
            => CallEvents(k) = SectionEvents(arg.builder.sections, "#")
  /\ (Len(ret) = 2 /\ ret[1].op = ret[2].op /\ ret[1].t = "return" /\ ret[2].t = "return")
       => /\ Shared(CallEvents(1), CallEvents(2)) = Shared(CallEvents(2), CallEvents(1))
          /\ Fixed(CallEvents(1)) = Fixed(CallEvents(2))

\* C9, witness: the table and the paragraph bound to x, a section each,
\* rendered twice by render with bags that suppress different paragraphs.
C9_Witness ==
  /\ Len(ret) = 2 /\ ret[1].op = "render" /\ ret[2].op = "render"
  /\ arg.tree = << NodePool[6], NodePool[2] >>
  /\ Len(arg.builder.sections) = 2
  /\ CallEvents(1) # CallEvents(2)
  /\ Shared(CallEvents(1), CallEvents(2)) # <<>>

----------------------------------------------------------------------------
(* Claims on what a render leaves alone, checked under SpecTree *)

\* C12: every call of render or renderHtml leaves the builder's sections,
\* properties, default font and default font size, the static count and
\* the caller's data bags as they were; so a call made after another call
\* returns what a call on the builder as configured returns for its data
\* bag, and what the earlier call returned when that was the same call with
\* the same bag.
C12_RenderingLeavesState ==
  [][/\ arg'.builder = arg.builder
     /\ arg'.data = arg.data /\ arg'.other = arg.other
     /\ count' = count /\ builders' = builders
     /\ LET k == Len(ret')
            configured == BuilderOf("docx-builder0", arg.builder.sections)
        IN  /\ ret'[k].data = IF k = 1 THEN arg.data ELSE arg.other
            /\ ret'[k].op = "render"
                 => ret'[k].v = RenderDocument(configured, ret'[k].data)
            /\ (k = 2 /\ ret'[1].op = ret'[2].op /\ ret'[1].data = ret'[2].data)
                 => ret'[2] = ret'[1]]_vars

\* C12, witness: a builder with two sections was rendered by render with one
\* bag and then with another; the two Documents differ and the builder and
\* the bags are as they were given.
C12_Witness ==
  /\ Len(ret) = 2 /\ ret[1].op = "render" /\ ret[2].op = "render"
  /\ ret[1].data = arg.data /\ ret[2].data = arg.other /\ arg.data # arg.other
  /\ ret[1].v # ret[2].v
  /\ arg.builder = BuilderOf("docx-builder0", SectionsOf(arg.tree, TRUE))
  /\ Len(arg.builder.sections) = MaxNodes

----------------------------------------------------------------------------
(* Spec: a page with one DOM document, on which builders are constructed, *)
(* given sections and rendered                                             *)

\* The most builders constructed, and the most sections a builder is given.
MaxBuilders == 2

MaxSections == 2

\* The sections drawn: a run bound to a.b by its htmlConfig, and a blank
\* line, each with section properties of its own.
PageSections ==
  {[children |->
      << ParagraphItem("left",
           << TextItem([text |-> <<"d">>,
                        htmlConfig |-> [field |-> <<"a", ".", "b">>]]) >>) >>,
    properties |-> [type |-> "nextPage"]],
   [children |-> <<EmptyParagraphItem>>, properties |-> [type |-> "continuous"]]}

RECURSIVE SectionLists(_)
\* The lists of n sections.
SectionLists(n) ==
  IF n = 0 THEN {<<>>}
  ELSE {Append(l, x) : l \in SectionLists(n - 1), x \in PageSections}

\* The lists of sections drawn for addSections.
PageSectionLists == UNION {SectionLists(n) : n \in 0..MaxSections}

\* The data bags drawn: none, {a: null} and {a: {b: "X"}}.
PageBags ==
  {Undefined, Obj(<< [k |-> <<"a">>, v |-> Null] >>), Nested(1, 2, Str(<<"X">>))}

\* The environments drawn: a browser page, whose document has an empty head,
\* and Node.js, which has no document.
Environments == {[head |-> <<>>], Undefined}

Init ==
  /\ count = 0
  /\ builders = <<>>
  /\ document \in Environments
  /\ arg = [op |-> "none"]
  /\ ret = NoCall
  /\ exchange = NoExchange

\* new DocxBuilder(): the id is taken from the static count, which goes up.
constructor ==
  /\ Len(builders) < MaxBuilders
  /\ builders' = Append(builders, BuilderOf("docx-builder" \o ToString(count), <<>>))
  /\ count' = count + 1
  /\ arg' = [op |-> "constructor"]
  /\ ret' = [op |-> "constructor"] @@ Return(Len(builders) + 1)
  /\ UNCHANGED <<document, exchange>>

\* The values drawn for the setters: document properties, fonts, font sizes.
ConfigProperties ==
  {[title |-> "QC Report"], [title |-> "QC Report", creator |-> "struct-to-docx"]}

ConfigFonts == {"Arial", "SimSun"}

ConfigFontSizes == {Points(100), Points(80)}

\* builders[b].setProperties(properties); a call returns its builder.
setProperties(b, properties) ==
  /\ builders' = [builders EXCEPT ![b].properties = properties]
  /\ arg' = [op |-> "setProperties", builder |-> b, properties |-> properties]
  /\ ret' = [op |-> "setProperties"] @@ Return(b)
  /\ UNCHANGED <<count, document, exchange>>

\* builders[b].setDefaultFont(font)
setDefaultFont(b, font) ==
  /\ builders' = [builders EXCEPT ![b].defaultFont = font]
  /\ arg' = [op |-> "setDefaultFont", builder |-> b, font |-> font]
  /\ ret' = [op |-> "setDefaultFont"] @@ Return(b)
  /\ UNCHANGED <<count, document, exchange>>

\* builders[b].setDefaultFontSize(fontSize)
setDefaultFontSize(b, fontSize) ==
  /\ builders' = [builders EXCEPT ![b].defaultFontSize = fontSize]
  /\ arg' = [op |-> "setDefaultFontSize", builder |-> b, fontSize |-> fontSize]
  /\ ret' = [op |-> "setDefaultFontSize"] @@ Return(b)
  /\ UNCHANGED <<count, document, exchange>>

\* An addSection that puts the section at the front of the list.
addSectionFront(b, section) ==
  /\ Len(builders[b].sections) < MaxSections
  /\ builders' = [builders EXCEPT ![b].sections = <<section>> \o @]
  /\ arg' = [op |-> "addSection", builder |-> b, section |-> section]
  /\ ret' = [op |-> "addSection"] @@ Return(b)
  /\ UNCHANGED <<count, document, exchange>>

\* builders[b].addSection(section)
addSection(b, section) ==
  /\ Len(builders[b].sections) < MaxSections
  /\ builders' = [builders EXCEPT ![b].sections = Append(@, section)]
  /\ arg' = [op |-> "addSection", builder |-> b, section |-> section]
  /\ ret' = [op |-> "addSection"] @@ Return(b)
  /\ UNCHANGED <<count, document, exchange>>

\* builders[b].addSections(sections)
addSections(b, sections) ==
  /\ Len(builders[b].sections) + Len(sections) <= MaxSections
  /\ builders' = [builders EXCEPT ![b].sections = @ \o sections]
  /\ arg' = [op |-> "addSections", builder |-> b, sections |-> sections]
  /\ ret' = [op |-> "addSections"] @@ Return(b)
  /\ UNCHANGED <<count, document, exchange>>

\* builders[b].render(data)
render(b, data) ==
  /\ arg' = [op |-> "render", builder |-> b, data |-> data]
  /\ ret' = [op |-> "render"] @@ Return(RenderDocument(builders[b], data))
  /\ UNCHANGED <<count, builders, document, exchange>>

\* builders[b].renderHtml(data)
renderHtml(b, data) ==
  /\ arg' = [op |-> "renderHtml", builder |-> b, data |-> data]
  /\ ret' = [op |-> "renderHtml"] @@ RenderHtmlOutcome(builders[b], data, document)
  /\ document' = RenderHtmlDocument(builders[b], data, document)
  /\ UNCHANGED <<count, builders, exchange>>

Next ==
  \/ constructor
  \/ \E b \in DOMAIN builders, section \in PageSections : addSection(b, section)
  \/ \E b \in DOMAIN builders, sections \in PageSectionLists : addSections(b, sections)
  \/ \E b \in DOMAIN builders, data \in PageBags : render(b, data)
  \/ \E b \in DOMAIN builders, data \in PageBags : renderHtml(b, data)

Spec == Init /\ [][Next]_vars

----------------------------------------------------------------------------
(* SpecConfig: one builder in Node.js, configured by any sequence of the   *)
(* setters and adders and rendered, as the export script chains them       *)

InitConfig ==
  /\ count = 0
  /\ builders = <<>>
  /\ document = Undefined
  /\ arg = [op |-> "none"]
  /\ ret = NoCall
  /\ exchange = NoExchange

NextConfig ==
  \/ (builders = <<>> /\ constructor)
  \/ \E b \in DOMAIN builders, properties \in ConfigProperties : setProperties(b, properties)
  \/ \E b \in DOMAIN builders, font \in ConfigFonts : setDefaultFont(b, font)
  \/ \E b \in DOMAIN builders, fontSize \in ConfigFontSizes : setDefaultFontSize(b, fontSize)
  \/ \E b \in DOMAIN builders, section \in PageSections : addSection(b, section)
  \/ \E b \in DOMAIN builders, sections \in PageSectionLists : addSections(b, sections)
  \/ \E b \in DOMAIN builders, data \in PageBags : render(b, data)

SpecConfig == InitConfig /\ [][NextConfig]_vars

----------------------------------------------------------------------------
(* Claims on the configuration state, checked under SpecConfig *)

\* The builder of a step's call stays as it was but for the field f.
OnlyFieldChanges(b, f) ==
  /\ DOMAIN builders' = DOMAIN builders
  /\ \A o \in DOMAIN builders : o # b => builders'[o] = builders[o]
  /\ \A g \in DOMAIN builders[b] \ {f} : builders'[b][g] = builders[b][g]
  /\ DOMAIN builders'[b] = DOMAIN builders[b]

\* C14: a new builder has no sections, the properties {}, the font "Arial"
\* and the size 10; every setProperties, setDefaultFont, setDefaultFontSize,
\* addSection and addSections call returns the builder it was made on; a set
\* call makes its value the builder's and leaves the rest of the builder
\* alone, addSection puts its section at the end of the list and addSections
\* its sections, in their order, at the end of the list; and render leaves
\* the builder alone and gives one output section per entry of the list, in
\* the order of the list, in a Document of the builder's properties.
C14_ConfigurationState ==
  [][LET op == arg'.op
         b == arg'.builder
     IN  /\ op = "constructor"
              => builders' = Append(builders,
                                    [id |-> "docx-builder" \o ToString(count),
                                     sections |-> <<>>, properties |-> <<>>,
                                     defaultFont |-> "Arial", defaultFontSize |-> Points(100)])
         /\ op \in {"setProperties", "setDefaultFont", "setDefaultFontSize",
                     "addSection", "addSections"}
              => ret' = [op |-> op] @@ Return(b)
         /\ op = "setProperties"
              => /\ builders'[b].properties = arg'.properties
                 /\ OnlyFieldChanges(b, "properties")
         /\ op = "setDefaultFont"
              => /\ builders'[b].defaultFont = arg'.font
                 /\ OnlyFieldChanges(b, "defaultFont")
         /\ op = "setDefaultFontSize"
              => /\ builders'[b].defaultFontSize = arg'.fontSize
                 /\ OnlyFieldChanges(b, "defaultFontSize")
         /\ op = "addSection"
              => /\ builders'[b].sections = builders[b].sections \o <<arg'.section>>
                 /\ OnlyFieldChanges(b, "sections")
         /\ op = "addSections"
              => /\ builders'[b].sections = builders[b].sections \o arg'.sections
                 /\ OnlyFieldChanges(b, "sections")
         /\ op = "render"
              => /\ builders' = builders
                 /\ LET out == ret'.v.options
                        list == builders[b].sections
                    IN  /\ Len(out.sections) = Len(list)
                        /\ \A i \in DOMAIN list :
                             out.sections[i].properties = list[i].properties
                        /\ \A f \in DOMAIN builders[b].properties :
                             out[f] = builders[b].properties[f]]_vars

\* C14, witness: the builder was given the font SimSun, the size 8, the
\* properties with a creator and two different sections, and render gave
\* the two output sections in the order of the list.
C14_Witness ==
  /\ arg.op = "render" /\ ret.t = "return"
  /\ builders[1].defaultFont = "SimSun" /\ builders[1].defaultFontSize = Points(80)
  /\ builders[1].properties = [title |-> "QC Report", creator |-> "struct-to-docx"]
  /\ Len(builders[1].sections) = 2
  /\ builders[1].sections[1].properties # builders[1].sections[2].properties
  /\ ret.v.options.creator = "struct-to-docx"
  /\ ret.v.options.sections[1].properties = builders[1].sections[1].properties
  /\ ret.v.options.sections[2].properties = builders[1].sections[2].properties

----------------------------------------------------------------------------
(* Claims on the injected style, checked under Spec *)

\* The style elements of the head with the id of the shared stylesheet.
SharedStyles ==
  IF HasDocument(document)
  THEN SelectSeq(document.head, LAMBDA e : e.tag = "style" /\ e.id = StyleId)
  ELSE <<>>

\* C8, as claimed: after every renderHtml call, of any builder, the head
\* holds exactly one style element with the id docx-builder-style; the
\* first call creates it and a later call leaves the head as it is.
C8_OneStyleAfterRenderHtml ==
  [][(\E b \in DOMAIN builders, data \in PageBags : renderHtml(b, data))
       => /\ Len(SharedStyles') = 1
          /\ Len(SharedStyles) = 1 => document' = document]_vars

----------------------------------------------------------------------------
(* Claims on rendering a builder with no section, checked under Spec *)

\* The call made last was a render or a renderHtml of a builder that has no
\* section.
RenderedEmpty ==
  /\ arg.op \in {"render", "renderHtml"}
  /\ builders[arg.builder].sections = <<>>

\* C13, as claimed: render on a builder with no section returns a Document
\* of zero sections and renderHtml returns the root container with nothing
\* in it, neither throwing, and a section can be added afterwards.
C13_RenderWithoutSections ==
  RenderedEmpty
    => /\ ret.t = "return"
       /\ arg.op = "render" => ret.v.options.sections = <<>>
       /\ arg.op = "renderHtml"
            => ret.v = [tag |-> "div", id |-> builders[arg.builder].id, children |-> <<>>]
       /\ ENABLED (\E section \in PageSections : addSection(arg.builder, section))

----------------------------------------------------------------------------
(* Claims on the environments, checked under Spec *)

\* C18, as claimed: where there is no global document (Node.js), render and
\* renderHtml both return their output, a Document and the root container,
\* and neither throws.
C18_UsableWithoutDocument ==
  (~HasDocument(document) /\ arg.op \in {"render", "renderHtml"})
    => /\ ret.t = "return"
       /\ arg.op = "render" => Has(ret.v, "options")
       /\ arg.op = "renderHtml" => ret.v.tag = "div"

----------------------------------------------------------------------------
(* Claims on the identity of the builders, checked under Spec *)

\* The id of the instance created n-th, counting from 0.
IdOf(n) == "docx-builder" \o ToString(n)

\* The instances created so far carry the ids docx-builder0, docx-builder1,
\* ... in the order they were created, no two the same, and the shared
\* counter is their number.
NumberedInstances ==
  /\ count = Len(builders)
  /\ \A i \in DOMAIN builders : builders[i].id = IdOf(i - 1)
  /\ \A i, j \in DOMAIN builders : i # j => builders[i].id # builders[j].id

\* The renderHtml call made last returned a root element that carries the
\* id of its instance.
RootCarriesId ==
  /\ ret.t = "return"
  /\ ret.v.tag = "div"
  /\ ret.v.id = builders[arg.builder].id

\* C26, as claimed: after every step the n-th instance created has the id
\* docx-builder<n>, the ids are distinct and the counter is the number of
\* instances; no step lowers the counter or changes the id of an instance;
\* and every renderHtml call wraps its output in a root element that
\* carries the id of its instance.
C26_BuilderIdentity ==
  [][/\ NumberedInstances'
     /\ count' >= count
     /\ \A b \in DOMAIN builders : builders'[b].id = builders[b].id
     /\ arg'.op = "renderHtml" => RootCarriesId']_vars

----------------------------------------------------------------------------
(* The numbers of the unit conversions: non-negative IEEE-754 doubles *)

\* A natural number of any size is the list of its digits in base 2^LimbBits,
\* the least significant first and the last one not zero (no digit for 0).
LimbBits == 14

\* The base of the digits.
Base == 2 ^ LimbBits

\* The digit of weight Base^j.
LimbAt(n, j) == IF j + 1 \in DOMAIN n THEN n[j + 1] ELSE 0

RECURSIVE TrimBig(_)
\* The digits without the zeros at the significant end.
TrimBig(n) ==
  IF n # <<>> /\ n[Len(n)] = 0 THEN TrimBig(SubSeq(n, 1, Len(n) - 1)) ELSE n

RECURSIVE Carry(_, _)
\* The digits of the number whose columns (each at most 2^30) are cols, plus
\* carry.
Carry(cols, carry) ==
  IF cols = <<>> THEN (IF carry = 0 THEN <<>> ELSE <<carry>>)
  ELSE <<(Head(cols) + carry) % Base>>
         \o Carry(Tail(cols), (Head(cols) + carry) \div Base)

\* The number of an integer.
BigOfInt(x) == TrimBig(Carry(<<x>>, 0) \o <<0>>)

\* The integer of a number below 2^31.
IntOfBig(n) == LimbAt(n, 0) + (Base * (LimbAt(n, 1) + (Base * LimbAt(n, 2))))

\* The number of binary digits of n.
BitLength(n) ==
  IF n = <<>> THEN 0
  ELSE (LimbBits * (Len(n) - 1))
         + (CHOOSE k \in 1..LimbBits : 2 ^ (k - 1) <= n[Len(n)] /\ n[Len(n)] < 2 ^ k)

\* The binary digit of weight 2^i.
BitAt(n, i) == (LimbAt(n, i \div LimbBits) \div (2 ^ (i % LimbBits))) % 2

\* n * 2^k.
ShiftLeftBig(n, k) ==
  LET q == k \div LimbBits
      r == k % LimbBits
  IN  TrimBig([j \in 1..(Len(n) + q + 1) |->
                 ((LimbAt(n, j - 1 - q) * (2 ^ r)) % Base)
                   + (LimbAt(n, j - 2 - q) \div (2 ^ (LimbBits - r)))])

\* n divided by 2^k, the remainder dropped.
ShiftRightBig(n, k) ==
  LET q == k \div LimbBits
      r == k % LimbBits
  IN  TrimBig([j \in 1..Len(n) |->
                 (LimbAt(n, j - 1 + q) \div (2 ^ r))
                   + ((LimbAt(n, j + q) % (2 ^ r)) * (2 ^ (LimbBits - r)))])

\* a * b, for a of at most four digits.
MulBig(a, b) ==
  TrimBig(Carry([k \in 1..(Len(b) + 4) |->
                   (LimbAt(a, 0) * LimbAt(b, k - 1)) + (LimbAt(a, 1) * LimbAt(b, k - 2))
                     + (LimbAt(a, 2) * LimbAt(b, k - 3)) + (LimbAt(a, 3) * LimbAt(b, k - 4))],
                0))

RECURSIVE Borrow(_, _, _)
\* The digits of a - b - borrow, for a >= b + borrow.
Borrow(a, b, borrow) ==
  IF a = <<>> THEN <<>>
  ELSE LET diff == Head(a) - LimbAt(b, 0) - borrow
       IN  <<diff % Base>> \o Borrow(Tail(a), IF b = <<>> THEN b ELSE Tail(b),
                                     IF diff < 0 THEN 1 ELSE 0)

\* a - b, for a >= b.
SubBig(a, b) == TrimBig(Borrow(a, b, 0))

\* a < b.
LessBig(a, b) ==
  IF Len(a) # Len(b) THEN Len(a) < Len(b)
  ELSE \E i \in DOMAIN a :
         a[i] < b[i] /\ \A j \in DOMAIN a : j > i => a[j] = b[j]

\* One step of the long division by d, a number of four digits whose last
\* digit is Base / 2 or more: r is the remainder so far, x the next digit of
\* the dividend. The digit estimated from the leading digits is at most two
\* above the quotient digit.
DivDigit(r, x, d) ==
  LET r2 == TrimBig(<<x>> \o r)
      guess == ((LimbAt(r2, 4) * Base) + LimbAt(r2, 3)) \div d[4]
      top == IF guess < Base THEN guess ELSE Base - 1
      digit == CHOOSE c \in 0..top :
                 /\ c >= top - 2
                 /\ ~LessBig(r2, MulBig(<<c>>, d))
                 /\ \A c2 \in (c + 1)..top : LessBig(r2, MulBig(<<c2>>, d))
  IN  [digit |-> digit, r |-> SubBig(r2, MulBig(<<digit>>, d))]

RECURSIVE DivFrom(_, _, _)
\* The quotient and the remainder of the digits i and above of n by d.
DivFrom(n, d, i) ==
  IF i > Len(n) THEN [q |-> <<>>, r |-> <<>>]
  ELSE LET above == DivFrom(n, d, i + 1)
           step == DivDigit(above.r, n[i], d)
       IN  IF above.r = <<>> /\ n[i] = 0
           THEN [q |-> <<0>> \o above.q, r |-> <<>>]
           ELSE [q |-> <<step.digit>> \o above.q, r |-> step.r]

\* The quotient of n by d, for d > 0, and the remainder as a multiple of
\* it (zero iff the division is exact): n and d are scaled to give d four
\* digits, the last one Base / 2 or more.
DivBig(n, d) ==
  LET s == (4 * LimbBits) - BitLength(d)
      dm == DivFrom(ShiftLeftBig(n, s), ShiftLeftBig(d, s), 1)
  IN  [q |-> TrimBig(dm.q), r |-> dm.r]

\* The binary digits of a double's significand.
Precision == 53

\* A double m * 2^e, m of Precision binary digits; zero has no digit.
Zero == [m |-> <<>>, e |-> 0]

\* The double nearest to n * 2^e (plus a fraction of 2^e that is not zero
\* iff sticky), a tie going to the even significand.
RoundDouble(n, sticky, e) ==
  LET len == BitLength(n)
      d == len - Precision
  IN  IF n = <<>> THEN Zero
      ELSE IF d <= 0 THEN [m |-> ShiftLeftBig(n, 0 - d), e |-> e + d]
      ELSE LET kept == ShiftRightBig(n, d)
               rest == sticky \/ \E i \in 0..(d - 2) : BitAt(n, i) = 1
               up == BitAt(n, d - 1) = 1 /\ (rest \/ BitAt(kept, 0) = 1)
               r == IF up THEN Carry(kept, 1) ELSE kept
           IN  IF BitLength(r) > Precision
               THEN [m |-> ShiftRightBig(r, 1), e |-> e + d + 1]
               ELSE [m |-> r, e |-> e + d]

\* The double of the decimal num / den (a numeric literal, or a number the
\* caller passes).
DoubleOf(num, den) ==
  LET k == Precision + 3 + BitLength(BigOfInt(den))
      dm == DivBig(ShiftLeftBig(BigOfInt(num), k), BigOfInt(den))
  IN  RoundDouble(dm.q, dm.r # <<>>, 0 - k)

\* x * y in double arithmetic.
DoubleMul(x, y) == RoundDouble(MulBig(x.m, y.m), FALSE, x.e + y.e)

\* x / y in double arithmetic, for y > 0.
DoubleDiv(x, y) ==
  LET k == Precision + 3
      dm == DivBig(ShiftLeftBig(x.m, k), y.m)
  IN  RoundDouble(dm.q, dm.r # <<>>, x.e - k - y.e)

\* Math.round(x) for x >= 0: the integer part, plus one when the fraction
\* is a half or more.
MathRoundOf(x) ==
  IF x.m = <<>> THEN 0
  ELSE IF x.e >= 0 THEN IntOfBig(ShiftLeftBig(x.m, x.e))
  ELSE IF 0 - x.e > Precision THEN 0
  ELSE IntOfBig(ShiftRightBig(x.m, 0 - x.e)) + BitAt(x.m, 0 - x.e - 1)

----------------------------------------------------------------------------
(* The unit conversions, on doubles *)

\* textSize of a number of points.
textSizeOfNumber(fontSize) == MathRoundOf(DoubleMul(fontSize, DoubleOf(2, 1)))

\* textSize of a named size.
textSizeOfToken(name) ==
  MathRoundOf(DoubleMul(DoubleOf(fontSizeMap[name], 10), DoubleOf(2, 1)))

\* paragraphBorderSize(points): eighths of a point.
paragraphBorderSize(points) == MathRoundOf(DoubleMul(points, DoubleOf(8, 1)))

\* paragraphSpacingLine(line): 240 to the line.
paragraphSpacingLine(line) == MathRoundOf(DoubleMul(line, DoubleOf(240, 1)))

\* A conversion at the 567 twips to the centimetre of the method's comment.
cmToTwipsRounded(cm) == MathRoundOf(DoubleMul(cm, DoubleOf(567, 1)))

\* cmToTwips(cm) = Math.round(cm * 566.93).
cmToTwips(cm) == MathRoundOf(DoubleMul(cm, DoubleOf(56693, 100)))

\* cmToEmus(cm) = Math.round(cm * 360000).
cmToEmus(cm) == MathRoundOf(DoubleMul(cm, DoubleOf(360000, 1)))

\* cmToPx(cm) = Math.round(cm * 96 / 2.54).
cmToPx(cm) ==
  MathRoundOf(DoubleDiv(DoubleMul(cm, DoubleOf(96, 1)), DoubleOf(254, 100)))

\* twipsToPx(twips) = Math.round(twips * (96 / 1440)), on doubles.
twipsToPxOfNumber(twips) ==
  MathRoundOf(DoubleMul(twips, DoubleDiv(DoubleOf(96, 1), DoubleOf(1440, 1))))

----------------------------------------------------------------------------
(* The unit conversions called on their own *)

\* The largest numerator of a number passed to a conversion.
MaxUnit == 50

\* The denominators of the numbers passed: whole numbers, halves, quarters,
\* tenths and hundredths.
UnitDenominators == {1, 2, 4, 10, 100}

\* The numbers passed to the conversions of points, lines and centimetres.
UnitInputs ==
  {[num |-> n, den |-> d] : n \in 0..MaxUnit, d \in UnitDenominators}

\* The numbers of twips passed to twipsToPx: whole numbers.
TwipInputs ==
  {[num |-> n * d, den |-> 1] : n \in 0..MaxUnit, d \in UnitDenominators}
    \cup {[num |-> 567, den |-> 1]}

\* The calls made: a conversion and its argument.
UnitCalls ==
  {[op |-> op, num |-> x.num, den |-> x.den] :
     op \in {"textSize", "paragraphBorderSize", "paragraphSpacingLine",
             "cmToTwips", "cmToEmus", "cmToPx"},
     x \in UnitInputs}
    \cup {[op |-> "twipsToPx", num |-> x.num, den |-> x.den] : x \in TwipInputs}
    \cup {[op |-> "textSize", name |-> name] : name \in DOMAIN fontSizeMap}

\* The number a call passes.
UnitArgument == DoubleOf(arg.num, arg.den)

callTextSize ==
  /\ arg.op = "textSize" /\ ret = NoCall
  /\ ret' = Return(IF Has(arg, "name") THEN textSizeOfToken(arg.name)
                   ELSE textSizeOfNumber(UnitArgument))
  /\ UNCHANGED <<count, builders, document, arg, exchange>>

callParagraphBorderSize ==
  /\ arg.op = "paragraphBorderSize" /\ ret = NoCall
  /\ ret' = Return(paragraphBorderSize(UnitArgument))
  /\ UNCHANGED <<count, builders, document, arg, exchange>>

callParagraphSpacingLine ==
  /\ arg.op = "paragraphSpacingLine" /\ ret = NoCall
  /\ ret' = Return(paragraphSpacingLine(UnitArgument))
  /\ UNCHANGED <<count, builders, document, arg, exchange>>

callCmToTwips ==
  /\ arg.op = "cmToTwips" /\ ret = NoCall
  /\ ret' = Return(cmToTwips(UnitArgument))
  /\ UNCHANGED <<count, builders, document, arg, exchange>>

callCmToEmus ==
  /\ arg.op = "cmToEmus" /\ ret = NoCall
  /\ ret' = Return(cmToEmus(UnitArgument))
  /\ UNCHANGED <<count, builders, document, arg, exchange>>

callCmToPx ==
  /\ arg.op = "cmToPx" /\ ret = NoCall
  /\ ret' = Return(cmToPx(UnitArgument))
  /\ UNCHANGED <<count, builders, document, arg, exchange>>

callTwipsToPx ==
  /\ arg.op = "twipsToPx" /\ ret = NoCall
  /\ ret' = Return(twipsToPxOfNumber(UnitArgument))
  /\ UNCHANGED <<count, builders, document, arg, exchange>>

InitUnits ==
  /\ count = 0
  /\ builders = <<>>
  /\ document = Undefined
  /\ arg \in UnitCalls
  /\ ret = NoCall
  /\ exchange = NoExchange

NextUnits ==
  \/ callTextSize
  \/ callParagraphBorderSize
  \/ callParagraphSpacingLine
  \/ callCmToTwips
  \/ callCmToEmus
  \/ callCmToPx
  \/ callTwipsToPx

SpecUnits == InitUnits /\ [][NextUnits]_vars

----------------------------------------------------------------------------
(* Claims on the unit conversions, checked under SpecUnits *)

\* The factor of each conversion as a fraction of integers, the named sizes
\* having their points in tenths.
UnitFactor ==
  [textSize |-> [num |-> 2, den |-> 1],
   paragraphBorderSize |-> [num |-> 8, den |-> 1],
   paragraphSpacingLine |-> [num |-> 240, den |-> 1],
   cmToTwips |-> [num |-> 56693, den |-> 100],
   cmToEmus |-> [num |-> 360000, den |-> 1],
   cmToPx |-> [num |-> 9600, den |-> 254],
   twipsToPx |-> [num |-> 96, den |-> 1440]]

\* The argument of the call made, as a fraction of integers.
CallNum == IF Has(arg, "name") THEN fontSizeMap[arg.name] ELSE arg.num
CallDen == IF Has(arg, "name") THEN 10 ELSE arg.den

\* The stated formula on the call's argument, in exact arithmetic: the
\* product as a fraction, rounded to the nearest integer, a half going up.
ExactNum == CallNum * UnitFactor[arg.op].num
ExactDen == CallDen * UnitFactor[arg.op].den
ExactRound == (2 * ExactNum + ExactDen) \div (2 * ExactDen)

\* The exact product lies half way between two integers.
ExactHalf == (2 * ExactNum) % (2 * ExactDen) = ExactDen

\* C15, as claimed: every conversion returns its formula's value, the
\* product rounded to the nearest integer.
C15_ConversionsFollowFormulas ==
  ret.t = "return" => ret.v = ExactRound

\* C15, amended: every conversion returns the value of its formula computed
\* in double arithmetic with Math.round, which is the exactly computed
\* rounding except for cmToTwips where the exact product is a half: there
\* the double product can fall below the half and the integer below comes
\* back, as for 50 cm (28346, the exact rounding being 28347). The named
\* examples hold, and the whole-number shortcuts the renderers use agree.
C15_ConversionsInDoubles ==
  ret.t = "return"
    => /\ (arg.op = "cmToTwips" /\ ExactHalf)
            => ret.v \in {ExactRound - 1, ExactRound}
       /\ ~(arg.op = "cmToTwips" /\ ExactHalf) => ret.v = ExactRound
       /\ (arg.op = "cmToTwips" /\ arg.num = 50 * arg.den) => ret.v = 28346
       /\ (arg.op = "cmToTwips" /\ arg.num = arg.den) => ret.v = 567
       /\ (arg.op = "textSize" /\ Has(arg, "num") /\ arg.num = 12 * arg.den)
            => ret.v = 24
       /\ (arg.op = "textSize" /\ Has(arg, "name") /\ arg.name = "wuhao")
            => ret.v = 21
       /\ (arg.op = "twipsToPx" /\ arg.num = 567) => ret.v = 38
       /\ (arg.op = "textSize" /\ Has(arg, "name"))
            => ret.v = textSize(SizeToken(arg.name))
       /\ (arg.op = "textSize" /\ Has(arg, "num") /\ arg.den = 10)
            => ret.v = textSize(Points(arg.num))
       /\ arg.op = "twipsToPx" => ret.v = twipsToPx(arg.num)

\* cmToTwips has returned for 50 cm, where the exact product is a half.
C15_Witness ==
  /\ ret.t = "return"
  /\ arg.op = "cmToTwips" /\ arg.num = 50 /\ arg.den = 1
  /\ ExactHalf
  /\ ret.v = 28346

----------------------------------------------------------------------------
(* fetchUrlFile: the request, the events of its exchange, the promise *)

\* The URLs fetched: one over http, one over https.
FetchUrls ==
  {<<"h", "t", "t", "p", ":", "/", "/", "h", "/", "a">>,
   <<"h", "t", "t", "p", "s", ":", "/", "/", "h", "/", "a">>}

\* new URL(urlStr).protocol: the scheme and its colon.
Protocol(urlStr) ==
  SubSeq(urlStr, 1, CHOOSE i \in DOMAIN urlStr :
                      urlStr[i] = ":" /\ \A j \in 1..(i - 1) : urlStr[j] # ":")

\* The status codes the server answers with.
FetchStatuses == {200, 204, 404, 500}

\* The most chunks a response body comes in.
MaxBody == 2

\* The chunks of bytes a body is made of.
FetchChunks == {<<1>>, <<2, 3>>}

\* The response bodies: up to MaxBody chunks.
FetchBodies == UNION {[1..n -> FetchChunks] : n \in 0..MaxBody}

\* request.setTimeout(30_000).
FetchTimeout == 30000

\* response.ok of the fetch API.
ResponseOk(status) == status \in 200..299

\* The promise fetchUrlFile returned has not settled.
Pending == [t |-> "pending"]

\* resolve or reject on a promise: the first one settles it.
Settle(promise, outcome) == IF promise.t = "pending" THEN outcome ELSE promise

\* new Error(`Failed to fetch ${urlStr}, status code: ${status}`).
StatusError(urlStr, status) == [name |-> "Error", url |-> urlStr, status |-> status]

\* The error the platform raises when the request or the body fails: the
\* TypeError of fetch, the Error of the Node.js request with its code.
FetchFailed == [name |-> "TypeError", reason |-> "fetch failed"]
RequestFailed(code) == [name |-> "Error", reason |-> code]

\* fetchUrlFile(urlStr): one fetch where there is a global fetch, else one
\* get of node:http or node:https with the error and timeout listeners and
\* the timeout armed.
fetchUrlFile ==
  /\ arg.op = "fetchUrlFile" /\ ret = NoCall
  /\ exchange' =
       [exchange EXCEPT
          !.phase = "sent",
          !.attempts = @ + 1,
          !.module = IF exchange.native THEN "fetch"
                     ELSE IF Protocol(arg.urlStr) = <<"h", "t", "t", "p", "s", ":">>
                     THEN "node:https" ELSE "node:http",
          !.timeout = IF exchange.native THEN 0 ELSE FetchTimeout]
  /\ ret' = Pending
  /\ UNCHANGED <<count, builders, document, arg>>

\* The response head arrives: fetch resolves to the response and the code
\* throws unless response.ok; the callback of get rejects unless the status
\* is 200, and lets the body drain, else listens to data and end.
responseArrives ==
  /\ exchange.phase = "sent"
  /\ LET accepted == IF exchange.native THEN ResponseOk(exchange.status)
                     ELSE exchange.status = 200
     IN  /\ exchange' =
              [exchange EXCEPT
                 !.responded = TRUE,
                 !.phase = IF accepted THEN "streaming"
                           ELSE IF exchange.native THEN "closed" ELSE "draining",
                 !.settles = IF accepted THEN @ ELSE @ + 1]
         /\ ret' = IF accepted THEN ret
                   ELSE Settle(ret, Throw(StatusError(arg.urlStr, exchange.status)))
  /\ UNCHANGED <<count, builders, document, arg>>

\* A chunk of the body arrives: pushed to chunks by the data listener,
\* read by arrayBuffer, dropped by a draining response.
dataArrives ==
  /\ exchange.phase \in {"streaming", "draining"}
  /\ exchange.delivered < Len(exchange.body)
  /\ exchange' =
       [exchange EXCEPT
          !.delivered = @ + 1,
          !.chunks = IF exchange.phase = "streaming"
                     THEN Append(@, exchange.body[exchange.delivered + 1])
                     ELSE @]
  /\ UNCHANGED <<count, builders, document, arg, ret>>

\* The body ends: the end listener resolves with the chunks concatenated,
\* arrayBuffer resolves with the bytes read; a draining response has no
\* listener.
endArrives ==
  /\ exchange.phase \in {"streaming", "draining"}
  /\ exchange.delivered = Len(exchange.body)
  /\ exchange' =
       [exchange EXCEPT
          !.phase = "closed",
          !.settles = IF exchange.phase = "streaming" THEN @ + 1 ELSE @]
  /\ ret' = IF exchange.phase = "streaming"
            THEN Settle(ret, Return(Flatten(exchange.chunks)))
            ELSE ret
  /\ UNCHANGED <<count, builders, document, arg>>

\* The connection fails. fetch, or arrayBuffer, rejects with the platform's
\* TypeError. The Node.js request emits error before its response has come
\* (reject is the listener); afterwards the response is aborted, and the
\* code listens to data and end only.
connectionFails ==
  /\ exchange.phase \in {"sent", "streaming", "draining"}
  /\ LET rejects == exchange.native \/ exchange.phase = "sent"
     IN  /\ exchange' =
              [exchange EXCEPT
                 !.phase = "closed",
                 !.failed = TRUE,
                 !.settles = IF rejects THEN @ + 1 ELSE @]
         /\ ret' = IF ~rejects THEN ret
                   ELSE Settle(ret, Throw(IF exchange.native THEN FetchFailed
                                          ELSE RequestFailed("ECONNREFUSED")))
  /\ UNCHANGED <<count, builders, document, arg>>

\* The timeout of the Node.js request expires: the listener destroys the
\* request. Destroyed before its response, the request is to emit error;
\* destroyed after it, the response is aborted.
timeoutExpires ==
  /\ exchange.timeout > 0
  /\ exchange.phase \in {"sent", "streaming", "draining"}
  /\ exchange' =
       [exchange EXCEPT
          !.timedOut = TRUE,
          !.destroyed = TRUE,
          !.phase = IF exchange.phase = "sent" THEN "hangup" ELSE "closed"]
  /\ UNCHANGED <<count, builders, document, arg, ret>>

\* The request destroyed before its response emits error (socket hang up):
\* reject is the listener.
hangUp ==
  /\ exchange.phase = "hangup"
  /\ exchange' = [exchange EXCEPT !.phase = "closed", !.settles = @ + 1]
  /\ ret' = Settle(ret, Throw(RequestFailed("ECONNRESET")))
  /\ UNCHANGED <<count, builders, document, arg>>

InitFetch ==
  /\ count = 0
  /\ builders = <<>>
  /\ document = Undefined
  /\ arg \in {[op |-> "fetchUrlFile", urlStr |-> u] : u \in FetchUrls}
  /\ ret = NoCall
  /\ exchange \in
       {[native |-> n, status |-> st, body |-> b, phase |-> "idle",
         module |-> "none", attempts |-> 0, timeout |-> 0, responded |-> FALSE,
         delivered |-> 0, chunks |-> <<>>, settles |-> 0, failed |-> FALSE,
         timedOut |-> FALSE, destroyed |-> FALSE] :
          n \in BOOLEAN, st \in FetchStatuses, b \in FetchBodies}

NextFetch ==
  \/ fetchUrlFile
  \/ responseArrives
  \/ dataArrives
  \/ endArrives
  \/ connectionFails
  \/ timeoutExpires
  \/ hangUp

SpecFetch == InitFetch /\ [][NextFetch]_vars

----------------------------------------------------------------------------
(* Claims on fetchUrlFile, checked under SpecFetch *)

\* C16, as claimed: one request is made and no more; a successful response
\* whose body came whole resolves the promise to the bytes of the body; an
\* unsuccessful response, or a failed request, rejects it with an error
\* that carries the URL and the status or the reason; with and without a
\* global fetch alike.
C16_FetchOutcome ==
  /\ exchange.attempts <= 1
  /\ ret.t \in {"return", "throw"} => exchange.attempts = 1
  /\ ret.t = "return"
       => ResponseOk(exchange.status) /\ ret.v = Flatten(exchange.body)
  /\ ret.t = "throw"
       => /\ Has(ret.error, "url") /\ ret.error.url = arg.urlStr
          /\ Has(ret.error, "status") \/ Has(ret.error, "reason")
  /\ (exchange.responded /\ ~ResponseOk(exchange.status))
       => ret.t = "throw" /\ ret.error.status = exchange.status
  /\ (exchange.phase = "closed" /\ ResponseOk(exchange.status)
        /\ ~exchange.failed /\ ~exchange.timedOut)
       => ret.t = "return"

\* C17, as claimed: without a global fetch the request has a timeout of 30
\* seconds; when it expires before the body is whole the request is
\* destroyed, and once the exchange is over the promise is rejected; the
\* promise is settled once and no more, and once when the exchange is over.
C17_TimeoutSettles ==
  /\ (~exchange.native /\ exchange.phase # "idle") => exchange.timeout = 30000
  /\ exchange.timedOut => exchange.destroyed
  /\ (exchange.timedOut /\ exchange.phase = "closed") => ret.t = "throw"
  /\ exchange.settles <= 1
  /\ exchange.phase = "closed" => exchange.settles = 1 /\ ret.t # "pending"

----------------------------------------------------------------------------
(* SpecCell: a table of one cell, rendered by each renderer *)

\* tableCellWidthSize(cm) = cmToTwips(cm).
tableCellWidthSize(cm) == cmToTwips(cm)

\* The widths of the cells drawn: none, a percentage, and the twips of
\* tableCellWidthSize for whole and half centimetres.
CellWidths ==
  {[x \in {} |-> 0], [width |-> [size |-> Str(<<"1", "0", "%">>)]]}
    \cup {[width |-> [size |-> Num(tableCellWidthSize(DoubleOf(n, d)))]] :
            n \in 0..MaxUnit, d \in {1, 2}}

\* The table of the one cell.
TableOf(cell) == [type |-> "table", options |-> [rows |-> << [children |-> <<cell>>] >>]]

InitCell ==
  /\ count = 0
  /\ builders = <<>>
  /\ document = [head |-> <<>>]
  /\ arg \in {[op |-> "cell", cell |-> [children |-> <<>>] @@ w] : w \in CellWidths}
  /\ ret = NoCall
  /\ exchange = NoExchange

\* renderChildren on the table.
CellRender ==
  /\ ret = NoCall
  /\ ret' = [op |-> "renderChildren"]
            @@ Return(renderChildren(<<TableOf(arg.cell)>>, Undefined, DefaultBuilder))
  /\ UNCHANGED <<count, builders, document, arg, exchange>>

\* renderChildrenHtml on the table.
CellRenderHtml ==
  /\ ret = NoCall
  /\ ret' = [op |-> "renderChildrenHtml"]
            @@ Outcome(renderChildrenHtml(<<TableOf(arg.cell)>>, Undefined, DefaultBuilder))
  /\ UNCHANGED <<count, builders, document, arg, exchange>>

NextCell == CellRender \/ CellRenderHtml

SpecCell == InitCell /\ [][NextCell]_vars

----------------------------------------------------------------------------
(* Claims on the width of a table cell, checked under SpecCell *)

\* The cell of the table a returned call built.
BuiltCell ==
  IF ret.op = "renderChildren" THEN ret.v[1].options.rows[1].options.children[1]
  ELSE ret.v[1].children[1].children[1]

\* The cell the binary renderer builds for the cell of arg.
BinaryCell ==
  renderChildren(<<TableOf(arg.cell)>>, Undefined, DefaultBuilder)[1]
    .options.rows[1].options.children[1]

\* The cell's width.size is a number.
HasNumericWidth == Has(arg.cell, "width") /\ arg.cell.width.size.t = "number"

\* The twips of a CSS length in centimetres.
TwipsOf(minWidth) == cmToTwips(DoubleOf(minWidth.n, 1))

\* C24, as claimed: the number in a cell's width.size is twips to the binary
\* renderer, and the min-width the HTML renderer writes for the cell is the
\* same length; a cell with no width has the min-width auto.
C24_CellWidthUnits ==
  ret.op = "renderChildrenHtml"
    => /\ ret.t = "return"
       /\ HasNumericWidth
            => /\ Has(BuiltCell.minWidth, "unit")
               /\ BuiltCell.minWidth.unit = "cm"
               /\ TwipsOf(BuiltCell.minWidth) = BinaryCell.options.width.size.n
       /\ ~Has(arg.cell, "width") => BuiltCell.minWidth = [css |-> "auto"]

----------------------------------------------------------------------------
====
